---- MODULE Spec2Model ----
(***************************************************************************)
(* PriceChanger v2: the row extraction / validation / normalization        *)
(* pipeline (vendor and company), the MPN match engine and the markup      *)
(* calculator.                                                             *)
(*                                                                         *)
(* JavaScript values are modelled as follows.                              *)
(*   - a number is a record [k, n, d]: k = "fin" for the rational n/d      *)
(*     (d > 0, in lowest terms), k = "inf" for +/-Infinity (sign in n),    *)
(*     k = "nan" for NaN.  Arithmetic is exact on the finite values.       *)
(*   - a string is a sequence of one-character strings; the token "INF"    *)
(*     stands for the eight characters of the word Infinity.               *)
(*   - a spreadsheet cell is a record [t, s, n] with t the typeof tag      *)
(*     ("null", "undef", "str", "num"), s the string and n the number.     *)
(***************************************************************************)
EXTENDS Integers, Sequences, FiniteSets, TLC

(***************************************************************************)
(* Bounds of the model.                                                    *)
(***************************************************************************)
MaxRows == 3
MaxItems == 3
MaxVendors == 3

(***************************************************************************)
(* Numbers.                                                                *)
(***************************************************************************)
Abs(x) == IF x < 0 THEN -x ELSE x

Sgn(x) == IF x < 0 THEN -1 ELSE IF x > 0 THEN 1 ELSE 0

RECURSIVE GCD(_, _)
GCD(a, b) == IF b = 0 THEN a ELSE GCD(b, a % b)

NaN == [k |-> "nan", n |-> 0, d |-> 1]

Inf(sign) == [k |-> "inf", n |-> sign, d |-> 1]

\* n/d in lowest terms, g the greatest common divisor
Quotient(n, d, g) == [k |-> "fin", n |-> n \div g, d |-> d \div g]

Reduced(n, d) == Quotient(n, d, GCD(Abs(n), d))

Fin(num, den) == IF den < 0 THEN Reduced(-num, -den) ELSE Reduced(num, den)

Int2Num(i) == Fin(i, 1)

isNaN(x) == x.k = "nan"

\* x < 0, x >= 0 and x > 0 as JavaScript evaluates them (all false on NaN)
NumLt0(x) == x.k # "nan" /\ x.n < 0
NumGe0(x) == x.k # "nan" /\ x.n >= 0
NumGt0(x) == x.k # "nan" /\ x.n > 0

\* a / b
NumDiv(a, b) ==
    IF a.k = "nan" \/ b.k = "nan" THEN NaN
    ELSE IF a.k = "inf" THEN
        IF b.k = "inf" THEN NaN
        ELSE Inf(a.n * (IF b.n < 0 THEN -1 ELSE 1))
    ELSE IF b.k = "inf" THEN Int2Num(0)
    ELSE IF b.n = 0 THEN
        IF a.n = 0 THEN NaN ELSE Inf(Sgn(a.n))
    ELSE Fin(a.n * b.d, a.d * b.n)

\* a - b
NumSub(a, b) ==
    IF a.k = "nan" \/ b.k = "nan" THEN NaN
    ELSE IF a.k = "inf" THEN
        IF b.k = "inf" /\ b.n = a.n THEN NaN ELSE a
    ELSE IF b.k = "inf" THEN Inf(-b.n)
    ELSE Fin(a.n * b.d - b.n * a.d, a.d * b.d)

\* a * b
NumMul(a, b) ==
    IF a.k = "nan" \/ b.k = "nan" THEN NaN
    ELSE IF a.k = "inf" \/ b.k = "inf" THEN
        IF a.n = 0 \/ b.n = 0 THEN NaN ELSE Inf(Sgn(a.n) * Sgn(b.n))
    ELSE Fin(a.n * b.n, a.d * b.d)

(***************************************************************************)
(* Strings.                                                                *)
(***************************************************************************)
Digits == <<"0", "1", "2", "3", "4", "5", "6", "7", "8", "9">>

IsDigit(c) == \E i \in 1..10 : Digits[i] = c

DigitVal(c) == (CHOOSE i \in 1..10 : Digits[i] = c) - 1

\* the characters the pattern /[$,\s]/ matches
IsStripped(c) == c \in {"$", ",", " "}

\* value.replace(/[$,\s]/g, '')
RECURSIVE StripCurrency(_)
StripCurrency(s) ==
    IF s = <<>> THEN <<>>
    ELSE IF IsStripped(Head(s)) THEN StripCurrency(Tail(s))
    ELSE <<Head(s)>> \o StripCurrency(Tail(s))

\* s.trim()
RECURSIVE TrimLeft(_)
TrimLeft(s) ==
    IF s # <<>> /\ Head(s) = " " THEN TrimLeft(Tail(s)) ELSE s

RECURSIVE TrimRight(_)
TrimRight(s) ==
    IF s # <<>> /\ s[Len(s)] = " " THEN TrimRight(SubSeq(s, 1, Len(s) - 1)) ELSE s

Trim(s) == TrimRight(TrimLeft(s))

\* the number of digit characters of s from position i on
RECURSIVE DigitRun(_, _)
DigitRun(s, i) ==
    IF i <= Len(s) /\ IsDigit(s[i]) THEN 1 + DigitRun(s, i + 1) ELSE 0

RECURSIVE DigitsValue(_)
DigitsValue(s) ==
    IF s = <<>> THEN 0
    ELSE 10 * DigitsValue(SubSeq(s, 1, Len(s) - 1)) + DigitVal(s[Len(s)])

RECURSIVE Pow10(_)
Pow10(e) == IF e = 0 THEN 1 ELSE 10 * Pow10(e - 1)

\* parseFloat(s): the longest prefix of s that is a numeric literal
\* ([+-] then Infinity, or digits [. digits]); NaN when there is none.
\* -x
NumNeg(x) == IF x.k = "nan" THEN x ELSE [x EXCEPT !.n = -@]

\* the literal with ni integer digits and nf fraction digits at the head of s
DecimalLiteral(s, ni, nf) ==
    IF ni = 0 /\ nf = 0 THEN NaN
    ELSE Fin(DigitsValue(SubSeq(s, 1, ni)) * Pow10(nf)
               + DigitsValue(SubSeq(s, ni + 2, ni + 1 + nf)),
             Pow10(nf))

DecimalPrefix(s, ni) ==
    IF ni < Len(s) /\ s[ni + 1] = "."
    THEN DecimalLiteral(s, ni, DigitRun(s, ni + 2))
    ELSE DecimalLiteral(s, ni, 0)

UnsignedPrefix(s) ==
    IF s # <<>> /\ s[1] = "INF" THEN Inf(1) ELSE DecimalPrefix(s, DigitRun(s, 1))

parseFloat(s) ==
    IF s # <<>> /\ s[1] = "-" THEN NumNeg(UnsignedPrefix(Tail(s)))
    ELSE IF s # <<>> /\ s[1] = "+" THEN UnsignedPrefix(Tail(s))
    ELSE UnsignedPrefix(s)

RECURSIVE NatToStr(_)
NatToStr(i) ==
    IF i < 10 THEN <<Digits[i + 1]>>
    ELSE NatToStr(i \div 10) \o <<Digits[(i % 10) + 1]>>

\* the decimal digits of the fraction r/d (r < d), by long division
RECURSIVE FracToStr(_, _)
FracToStr(r, d) ==
    IF r = 0 THEN <<>>
    ELSE <<Digits[((10 * r) \div d) + 1]>> \o FracToStr((10 * r) % d, d)

\* String(x) of a number (the finite values of the model have a
\* terminating decimal expansion)
NumToStr(x) ==
    IF x.k = "nan" THEN <<"N", "a", "N">>
    ELSE IF x.k = "inf" THEN (IF x.n < 0 THEN <<"-">> ELSE <<>>) \o <<"INF">>
    ELSE (IF x.n < 0 THEN <<"-">> ELSE <<>>)
         \o NatToStr(Abs(x.n) \div x.d)
         \o (IF Abs(x.n) % x.d = 0 THEN <<>>
             ELSE <<".">> \o FracToStr(Abs(x.n) % x.d, x.d))

(***************************************************************************)
(* Cells.                                                                  *)
(***************************************************************************)
Null == [t |-> "null", s |-> <<>>, n |-> Int2Num(0)]

Undef == [t |-> "undef", s |-> <<>>, n |-> Int2Num(0)]

Str(s) == [t |-> "str", s |-> s, n |-> Int2Num(0)]

Num(x) == [t |-> "num", s |-> <<>>, n |-> x]

\* a boolean worksheet cell
Bool(b) == [t |-> "bool", s |-> <<>>, n |-> Int2Num(IF b THEN 1 ELSE 0)]

\* v === null || v === undefined || v === ''
IsEmptyCell(v) == v.t \in {"null", "undef"} \/ (v.t = "str" /\ v.s = <<>>)

\* !v
IsFalsy(v) ==
    \/ v.t \in {"null", "undef"}
    \/ v.t = "str" /\ v.s = <<>>
    \/ v.t = "num" /\ (isNaN(v.n) \/ (v.n.k = "fin" /\ v.n.n = 0))
    \/ v.t = "bool" /\ v.n.n = 0

\* String(v)
ToStr(v) ==
    IF v.t = "str" THEN v.s
    ELSE IF v.t = "num" THEN NumToStr(v.n)
    ELSE IF v.t = "bool"
         THEN (IF v.n.n = 1 THEN <<"t", "r", "u", "e">> ELSE <<"f", "a", "l", "s", "e">>)
    ELSE IF v.t = "null" THEN <<"n", "u", "l", "l">>
    ELSE <<"u", "n", "d", "e", "f", "i", "n", "e", "d">>

\* parseNumber(value): a Null cell stands for the result null
\* isNaN(parsed) ? null : parsed
NullIfNaN(parsed) == IF isNaN(parsed) THEN Null ELSE Num(parsed)

parseNumber(value) ==
    IF IsEmptyCell(value) THEN Null
    ELSE IF value.t = "num" THEN NullIfNaN(value.n)
    ELSE IF value.t = "str" THEN NullIfNaN(parseFloat(StripCurrency(value.s)))
    ELSE Null

(***************************************************************************)
(* Errors and stage results.  An error message is modelled by the row      *)
(* numbers of the "[Row N]" prefixes it carries (tags), the kind of        *)
(* failure, and the schema issues it lists.                                *)
(***************************************************************************)
NoErr == [tags |-> <<>>, kind |-> "none", issues |-> <<>>]

\* new Error(`[Row ${rowIndex + 1}] ...`)
RowError(rowIndex, kind) == [tags |-> <<rowIndex + 1>>, kind |-> kind, issues |-> <<>>]

RowSchemaError(rowIndex, issues) ==
    [tags |-> <<rowIndex + 1>>, kind |-> "RowValidationFailed", issues |-> issues]

\* an error whose message has no "[Row" in it (TypeError, ZodError)
BareError(kind, issues) == [tags |-> <<>>, kind |-> kind, issues |-> issues]

NoVendorRow == [MPN |-> <<>>, Cost |-> NaN, UnitDivider |-> NaN, UnitCost |-> NaN]

NoVendorRaw == [MPN |-> Undef, Cost |-> Undef, UnitDivider |-> Undef]

Ok(val) == [ok |-> TRUE, val |-> val, err |-> NoErr]

Throw(err, none) == [ok |-> FALSE, val |-> none, err |-> err]

(***************************************************************************)
(* Column mappings: kind "null" is the absent mapping, "empty" the object  *)
(* {} and "full" an object with MPN, Cost and (hasUD) 'Unit Divider'.      *)
(***************************************************************************)
NullMapping == [kind |-> "null", MPN |-> 0, Cost |-> 0, hasUD |-> FALSE, UD |-> 0]

EmptyMapping == [kind |-> "empty", MPN |-> 0, Cost |-> 0, hasUD |-> FALSE, UD |-> 0]

Mapping(m, c) == [kind |-> "full", MPN |-> m, Cost |-> c, hasUD |-> FALSE, UD |-> 0]

MappingUD(m, c, u) == [kind |-> "full", MPN |-> m, Cost |-> c, hasUD |-> TRUE, UD |-> u]

\* index < 0 || index >= row.length
OutOfRow(index, row) == index < 0 \/ index >= Len(row)

\* row[index] of a JavaScript array (undefined outside the array)
At(row, index) == IF OutOfRow(index, row) THEN Undef ELSE row[index + 1]

(***************************************************************************)
(* Zod schemas: the issues a schema reports, in the order of its keys.     *)
(***************************************************************************)
IsZodNumber(v) == v.t = "num" /\ ~isNaN(v.n)

\* the raw schema with Cost declared positive() instead of nonnegative()
VendorRowRawSchemaCostPositive(raw) ==
    (IF ~(raw.MPN.t = "str" \/ IsZodNumber(raw.MPN)) THEN <<"MPN: Invalid input">>
     ELSE IF raw.MPN.t = "str" /\ raw.MPN.s = <<>>
          THEN <<"MPN: MPN is required and cannot be empty">>
     ELSE <<>>)
    \o
    (IF ~IsZodNumber(raw.Cost) THEN <<"Cost: Expected number">>
     ELSE IF ~NumGt0(raw.Cost.n) THEN <<"Cost: Number must be greater than 0">>
     ELSE <<>>)
    \o
    (IF raw.UnitDivider.t = "null" THEN <<>>
     ELSE IF ~IsZodNumber(raw.UnitDivider) THEN <<"UnitDivider: Expected number">>
     ELSE IF ~NumGt0(raw.UnitDivider.n) THEN <<"UnitDivider: Number must be greater than 0">>
     ELSE <<>>)

VendorRowRawSchemaIssues(raw) ==
    (IF ~(raw.MPN.t = "str" \/ IsZodNumber(raw.MPN)) THEN <<"MPN: Invalid input">>
     ELSE IF raw.MPN.t = "str" /\ raw.MPN.s = <<>>
          THEN <<"MPN: MPN is required and cannot be empty">>
     ELSE <<>>)
    \o
    (IF ~IsZodNumber(raw.Cost) THEN <<"Cost: Expected number">>
     ELSE IF ~NumGe0(raw.Cost.n) THEN <<"Cost: Cost cannot be negative">>
     ELSE <<>>)
    \o
    (IF raw.UnitDivider.t = "null" THEN <<>>
     ELSE IF ~IsZodNumber(raw.UnitDivider) THEN <<"UnitDivider: Expected number">>
     ELSE IF ~NumGt0(raw.UnitDivider.n) THEN <<"UnitDivider: Number must be greater than 0">>
     ELSE <<>>)

\* the final schema without its UnitCost key
VendorRowSchemaNoUnitCost(normalized) ==
    (IF Len(normalized.MPN) < 1 THEN <<"MPN: MPN is required">> ELSE <<>>)
    \o
    (IF isNaN(normalized.Cost) THEN <<"Cost: Expected number">>
     ELSE IF ~NumGe0(normalized.Cost) THEN <<"Cost: Cost cannot be negative">>
     ELSE <<>>)
    \o
    (IF isNaN(normalized.UnitDivider) THEN <<"UnitDivider: Expected number">>
     ELSE IF ~NumGt0(normalized.UnitDivider) THEN <<"UnitDivider: UnitDivider must be positive">>
     ELSE <<>>)

VendorRowSchemaIssues(normalized) ==
    (IF Len(normalized.MPN) < 1 THEN <<"MPN: MPN is required">> ELSE <<>>)
    \o
    (IF isNaN(normalized.Cost) THEN <<"Cost: Expected number">>
     ELSE IF ~NumGe0(normalized.Cost) THEN <<"Cost: Cost cannot be negative">>
     ELSE <<>>)
    \o
    (IF isNaN(normalized.UnitDivider) THEN <<"UnitDivider: Expected number">>
     ELSE IF ~NumGt0(normalized.UnitDivider) THEN <<"UnitDivider: UnitDivider must be positive">>
     ELSE <<>>)
    \o
    (IF isNaN(normalized.UnitCost) THEN <<"UnitCost: Expected number">>
     ELSE IF ~NumGe0(normalized.UnitCost) THEN <<"UnitCost: UnitCost cannot be negative">>
     ELSE <<>>)

(***************************************************************************)
(* Vendor rows: extract, validate, normalize.                              *)
(***************************************************************************)
extractRawVendorRow(row, mapping, rowIndex) ==
    IF mapping.kind = "null"
    THEN Throw(RowError(rowIndex, "MappingRequired"), NoVendorRaw)
    ELSE IF mapping.kind = "empty"
    THEN Throw(BareError("TypeError", <<>>), NoVendorRaw)
    ELSE IF OutOfRow(mapping.MPN, row)
    THEN Throw(RowError(rowIndex, "MPNIndexOutOfBounds"), NoVendorRaw)
    ELSE IF OutOfRow(mapping.Cost, row)
    THEN Throw(RowError(rowIndex, "CostIndexOutOfBounds"), NoVendorRaw)
    ELSE LET mpnRaw     == At(row, mapping.MPN)
             costRaw    == At(row, mapping.Cost)
             dividerRaw == IF mapping.hasUD
                           THEN (IF ~OutOfRow(mapping.UD, row)
                                 THEN At(row, mapping.UD)
                                 ELSE Null)
                           ELSE Null
         IN  Ok([MPN         |-> mpnRaw,
                 Cost        |-> parseNumber(costRaw),
                 UnitDivider |-> parseNumber(dividerRaw)])

\* schema.safeParse(raw) and the throw on failure
SafeParse(raw, issues, rowIndex, none) ==
    IF issues # <<>> THEN Throw(RowSchemaError(rowIndex, issues), none) ELSE Ok(raw)

validateRawVendorRow(raw, rowIndex) ==
    IF IsEmptyCell(raw.MPN)
    THEN Throw(RowError(rowIndex, "MPNRequired"), NoVendorRaw)
    ELSE IF raw.Cost.t = "null"
    THEN Throw(RowError(rowIndex, "CostNotANumber"), NoVendorRaw)
    ELSE SafeParse(raw, VendorRowRawSchemaIssues(raw), rowIndex, NoVendorRaw)

\* VendorProcessor.validateRaw: the schema alone
VendorProcessor_validateRaw(raw, rowIndex) ==
    SafeParse(raw, VendorRowRawSchemaIssues(raw), rowIndex, NoVendorRaw)

\* validated.UnitDivider ?? 1
DividerOrOne(validated) ==
    IF validated.UnitDivider.t \in {"null", "undef"} THEN Int2Num(1)
    ELSE validated.UnitDivider.n

\* schema.parse(value)
ZodParse(value, issues, none) ==
    IF issues # <<>> THEN Throw(BareError("ZodError", issues), none) ELSE Ok(value)

VendorRowOf(validated, unitDivider) ==
    [MPN         |-> ToStr(validated.MPN),
     Cost        |-> validated.Cost.n,
     UnitDivider |-> unitDivider,
     UnitCost    |-> NumDiv(validated.Cost.n, unitDivider)]

VendorRowSchema_parse(normalized) ==
    ZodParse(normalized, VendorRowSchemaIssues(normalized), NoVendorRow)

normalizeVendorRow(validated) ==
    VendorRowSchema_parse(VendorRowOf(validated, DividerOrOne(validated)))

\* the catch block of parseRow: add "[Row N]" unless the message has "[Row"
\* a catch block that adds the context to every error
WithRowContextAlways(err, rowIndex) == [err EXCEPT !.tags = <<rowIndex + 1>> \o @]

WithRowContext(err, rowIndex) ==
    IF err.tags = <<>> THEN [err EXCEPT !.tags = <<rowIndex + 1>>] ELSE err

\* the try block of parseRow from a stage's outcome on: a failure goes to
\* the catch block, a success to the next stage
Normalized(final, rowIndex, none) ==
    IF final.ok THEN final ELSE Throw(WithRowContext(final.err, rowIndex), none)

VendorValidated(validated, rowIndex) ==
    IF validated.ok
    THEN Normalized(normalizeVendorRow(validated.val), rowIndex, NoVendorRow)
    ELSE Throw(WithRowContext(validated.err, rowIndex), NoVendorRow)

VendorExtracted(raw, rowIndex, impl) ==
    IF ~raw.ok THEN Throw(WithRowContext(raw.err, rowIndex), NoVendorRow)
    ELSE IF impl = "class"
    THEN VendorValidated(VendorProcessor_validateRaw(raw.val, rowIndex), rowIndex)
    ELSE VendorValidated(validateRawVendorRow(raw.val, rowIndex), rowIndex)

parseVendorRow(row, mapping, rowIndex, impl) ==
    VendorExtracted(extractRawVendorRow(row, mapping, rowIndex), rowIndex, impl)

EmptyResult == [normalized |-> <<>>, errors |-> <<>>]

\* a forEach body that numbers an error by the count of errors so far
CollectRowByCount(acc, parsed, index) ==
    IF parsed.ok
    THEN [acc EXCEPT !.normalized = Append(@, parsed.val)]
    ELSE [acc EXCEPT !.errors = Append(@, [row |-> Len(acc.errors) + 1, error |-> parsed.err])]

\* the body of the forEach callback: push to normalized, or to errors
Collect(acc, parsed, index) ==
    IF parsed.ok
    THEN [acc EXCEPT !.normalized = Append(@, parsed.val)]
    ELSE [acc EXCEPT !.errors = Append(@, [row |-> index + 1, error |-> parsed.err])]

\* a forEach that stops at the first failing row
RECURSIVE VendorForEachFailFast(_, _, _, _, _)
VendorForEachFailFast(rows, mapping, impl, index, acc) ==
    IF index >= Len(rows) \/ Len(acc.errors) > 0 THEN acc
    ELSE VendorForEachFailFast(rows, mapping, impl, index + 1,
            Collect(acc, parseVendorRow(rows[index + 1], mapping, index, impl), index))

\* rows.forEach((row, index) => ...) from position index (0-based) on,
\* with the two accumulators
RECURSIVE VendorForEach(_, _, _, _, _)
VendorForEach(rows, mapping, impl, index, acc) ==
    IF index >= Len(rows) THEN acc
    ELSE VendorForEach(rows, mapping, impl, index + 1,
            Collect(acc, parseVendorRow(rows[index + 1], mapping, index, impl), index))

processVendorRows(rows, mapping, impl) ==
    IF mapping.kind = "null" THEN EmptyResult
    ELSE VendorForEach(rows, mapping, impl, 0, EmptyResult)

(***************************************************************************)
(* Company rows: extract, validate, normalize.  The extracted record is a  *)
(* function from header names to cells; headers is [isNull, names].        *)
(***************************************************************************)
NoCompanyRow ==
    [MPN |-> <<>>, Item |-> <<>>, Description |-> Undef, PreferredVendor |-> Undef,
     Cost |-> NaN, Price |-> NaN, UM |-> Undef]

NoCompanyRaw ==
    [MPN |-> Undef, Item |-> Undef, Description |-> Undef, PreferredVendor |-> Undef,
     Cost |-> Undef, Price |-> Undef, UM |-> Undef]

NullHeaders == [isNull |-> TRUE, names |-> <<>>]

Headers(names) == [isNull |-> FALSE, names |-> names]

\* !headers || headers.length === 0
NoHeaders(headers) == headers.isNull \/ Len(headers.names) = 0

\* raw[key]
Field(raw, key) == IF key \in DOMAIN raw THEN raw[key] ELSE Undef

\* v || null, v || undefined
OrNull(v) == IF IsFalsy(v) THEN Null ELSE v

OrUndefined(v) == IF IsFalsy(v) THEN Undef ELSE v

IsOptionalString(v, nullable) ==
    v.t = "str" \/ v.t = "undef" \/ (nullable /\ v.t = "null")

CompanyRowRawSchemaIssues(validated) ==
    (IF ~(validated.MPN.t = "str" \/ IsZodNumber(validated.MPN)) THEN <<"MPN: Invalid input">>
     ELSE IF validated.MPN.t = "str" /\ validated.MPN.s = <<>>
          THEN <<"MPN: MPN is required and cannot be empty">>
     ELSE <<>>)
    \o
    (IF validated.Item.t # "str" THEN <<"Item: Expected string">>
     ELSE IF Trim(validated.Item.s) = <<>>
          THEN <<"Item: Item name is required and cannot be empty">>
     ELSE <<>>)
    \o
    (IF ~IsOptionalString(validated.Description, TRUE)
     THEN <<"Description: Expected string">> ELSE <<>>)
    \o
    (IF ~IsOptionalString(validated.PreferredVendor, TRUE)
     THEN <<"PreferredVendor: Expected string">> ELSE <<>>)
    \o
    (IF ~IsZodNumber(validated.Cost) THEN <<"Cost: Expected number">>
     ELSE IF ~NumGe0(validated.Cost.n) THEN <<"Cost: Cost cannot be negative">>
     ELSE <<>>)
    \o
    (IF ~IsZodNumber(validated.Price) THEN <<"Price: Expected number">>
     ELSE IF ~NumGe0(validated.Price.n) THEN <<"Price: Price cannot be negative">>
     ELSE <<>>)
    \o
    (IF ~IsOptionalString(validated.UM, TRUE)
     THEN <<"U/M: Expected string">> ELSE <<>>)

CompanyRowSchemaIssues(final) ==
    (IF Len(final.MPN) < 1 THEN <<"MPN: MPN is required">> ELSE <<>>)
    \o
    (IF Len(final.Item) < 1 THEN <<"Item: Item name is required">> ELSE <<>>)
    \o
    (IF ~IsOptionalString(final.Description, FALSE)
     THEN <<"Description: Expected string">> ELSE <<>>)
    \o
    (IF ~IsOptionalString(final.PreferredVendor, FALSE)
     THEN <<"PreferredVendor: Expected string">> ELSE <<>>)
    \o
    (IF isNaN(final.Cost) THEN <<"Cost: Expected number">>
     ELSE IF ~NumGe0(final.Cost) THEN <<"Cost: Cost cannot be negative">>
     ELSE <<>>)
    \o
    (IF isNaN(final.Price) THEN <<"Price: Expected number">>
     ELSE IF ~NumGe0(final.Price) THEN <<"Price: Price cannot be negative">>
     ELSE <<>>)
    \o
    (IF ~IsOptionalString(final.UM, FALSE)
     THEN <<"U/M: Expected string">> ELSE <<>>)

\* the position headers.forEach writes last under the name h
LastIndexOf(names, h) == CHOOSE i \in 1..Len(names) :
    names[i] = h /\ \A j \in (i + 1)..Len(names) : names[j] # h

FirstIndexOf(names, h) == CHOOSE i \in 1..Len(names) :
    names[i] = h /\ \A j \in 1..(i - 1) : names[j] # h

\* an extraction that keeps the first cell written under a header name
extractRawCompanyRowFirstWins(row, headers, rowIndex) ==
    IF NoHeaders(headers)
    THEN Throw(RowError(rowIndex, "HeadersRequired"), << >>)
    ELSE IF Len(row) # Len(headers.names)
    THEN Throw(RowError(rowIndex, "ColumnCountMismatch"), << >>)
    ELSE Ok([h \in {headers.names[i] : i \in 1..Len(headers.names)} |->
                row[FirstIndexOf(headers.names, h)]])

extractRawCompanyRow(row, headers, rowIndex) ==
    IF NoHeaders(headers)
    THEN Throw(RowError(rowIndex, "HeadersRequired"), << >>)
    ELSE IF Len(row) # Len(headers.names)
    THEN Throw(RowError(rowIndex, "ColumnCountMismatch"), << >>)
    ELSE Ok([h \in {headers.names[i] : i \in 1..Len(headers.names)} |->
                row[LastIndexOf(headers.names, h)]])

\* !raw.Item || (typeof raw.Item === 'string' && raw.Item.trim() === '')
ItemMissing(rawItem) ==
    IsFalsy(rawItem) \/ (rawItem.t = "str" /\ Trim(rawItem.s) = <<>>)

CompanyValidatedOf(raw, cost, price) ==
    [MPN             |-> Field(raw, "MPN"),
     Item            |-> Str(Trim(ToStr(Field(raw, "Item")))),
     Description     |-> OrNull(Field(raw, "Description")),
     PreferredVendor |-> OrNull(Field(raw, "PreferredVendor")),
     Cost            |-> cost,
     Price           |-> price,
     UM              |-> OrNull(Field(raw, "U/M"))]

CompanyRowRawSchema_safeParse(validated, rowIndex) ==
    SafeParse(validated, CompanyRowRawSchemaIssues(validated), rowIndex, NoCompanyRaw)

\* the checks on the parsed Cost and Price, then the schema
ValidateAmounts(raw, cost, price, rowIndex) ==
    IF cost.t = "null"
    THEN Throw(RowError(rowIndex, "CostNotANumber"), NoCompanyRaw)
    ELSE IF NumLt0(cost.n)
    THEN Throw(RowError(rowIndex, "CostNegative"), NoCompanyRaw)
    ELSE IF price.t = "null"
    THEN Throw(RowError(rowIndex, "PriceNotANumber"), NoCompanyRaw)
    ELSE IF NumLt0(price.n)
    THEN Throw(RowError(rowIndex, "PriceNegative"), NoCompanyRaw)
    ELSE CompanyRowRawSchema_safeParse(CompanyValidatedOf(raw, cost, price), rowIndex)

\* validation that leaves the Item check to the schema
validateRawCompanyRowNoItemCheck(raw, rowIndex) ==
    IF IsEmptyCell(Field(raw, "MPN"))
    THEN Throw(RowError(rowIndex, "MPNRequired"), NoCompanyRaw)
    ELSE ValidateAmounts(raw, parseNumber(Field(raw, "Cost")),
                         parseNumber(Field(raw, "Price")), rowIndex)

validateRawCompanyRow(raw, rowIndex) ==
    IF IsEmptyCell(Field(raw, "MPN"))
    THEN Throw(RowError(rowIndex, "MPNRequired"), NoCompanyRaw)
    ELSE IF ItemMissing(Field(raw, "Item"))
    THEN Throw(RowError(rowIndex, "ItemRequired"), NoCompanyRaw)
    ELSE ValidateAmounts(raw, parseNumber(Field(raw, "Cost")),
                         parseNumber(Field(raw, "Price")), rowIndex)

CompanyRowOf(validated) ==
    [MPN             |-> ToStr(validated.MPN),
     Item            |-> validated.Item.s,
     Description     |-> OrUndefined(validated.Description),
     PreferredVendor |-> OrUndefined(validated.PreferredVendor),
     Cost            |-> validated.Cost.n,
     Price           |-> validated.Price.n,
     UM              |-> OrUndefined(validated.UM)]

CompanyRowSchema_parse(final) ==
    ZodParse(final, CompanyRowSchemaIssues(final), NoCompanyRow)

normalizeCompanyRow(validated) == CompanyRowSchema_parse(CompanyRowOf(validated))

CompanyValidated(validated, rowIndex) ==
    IF validated.ok
    THEN Normalized(normalizeCompanyRow(validated.val), rowIndex, NoCompanyRow)
    ELSE Throw(WithRowContext(validated.err, rowIndex), NoCompanyRow)

CompanyExtracted(raw, rowIndex) ==
    IF raw.ok
    THEN CompanyValidated(validateRawCompanyRow(raw.val, rowIndex), rowIndex)
    ELSE Throw(WithRowContext(raw.err, rowIndex), NoCompanyRow)

parseCompanyRow(row, headers, rowIndex) ==
    CompanyExtracted(extractRawCompanyRow(row, headers, rowIndex), rowIndex)

RECURSIVE CompanyForEach(_, _, _, _)
CompanyForEach(rows, headers, index, acc) ==
    IF index >= Len(rows) THEN acc
    ELSE CompanyForEach(rows, headers, index + 1,
            Collect(acc, parseCompanyRow(rows[index + 1], headers, index), index))

\* company-processor.ts returns early on !headers || headers.length === 0,
\* BaseProcessor.processRows on !config
processCompanyRows(rows, headers, impl) ==
    IF (impl = "function" /\ NoHeaders(headers)) \/ (impl = "class" /\ headers.isNull)
    THEN EmptyResult
    ELSE CompanyForEach(rows, headers, 0, EmptyResult)

(***************************************************************************)
(* Matching company rows with vendor rows by MPN.  A vendorRow that may be *)
(* null is a record with the flag isNull.                                  *)
(***************************************************************************)
NullVendor == [isNull |-> TRUE, row |-> NoVendorRow]

SomeVendor(v) == [isNull |-> FALSE, row |-> v]

\* a Map whose set() keeps the value a key already has
MapSetIfAbsent(lookup, key, value) ==
    [k \in DOMAIN lookup \cup {key} |-> IF k \in DOMAIN lookup THEN lookup[k] ELSE value]

\* Map.prototype.set
MapSet(lookup, key, value) ==
    [k \in DOMAIN lookup \cup {key} |-> IF k = key THEN value ELSE lookup[k]]

\* new Map(vendorRows.map(v => [v.MPN, v])): the entries are set in array order
RECURSIVE NewMap(_, _, _)
NewMap(vendorRows, i, lookup) ==
    IF i > Len(vendorRows) THEN lookup
    ELSE NewMap(vendorRows, i + 1, MapSet(lookup, vendorRows[i].MPN, vendorRows[i]))

\* a lookup that answers with some entry of the map whatever the key
GetAnyOrNull(vendorLookup, MPN) ==
    IF DOMAIN vendorLookup # {}
    THEN SomeVendor(vendorLookup[CHOOSE k \in DOMAIN vendorLookup : TRUE])
    ELSE NullVendor

\* vendorLookup.get(MPN) || null
GetOrNull(vendorLookup, MPN) ==
    IF MPN \in DOMAIN vendorLookup THEN SomeVendor(vendorLookup[MPN]) ELSE NullVendor

\* x || null
FalsyToNull(x) == IF isNaN(x) \/ (x.k = "fin" /\ x.n = 0) THEN Null ELSE Num(x)

\* an item whose costDifference is (companyRow.Cost - vendorRow.Cost) || null
MatchedItemFalsyDifference(companyRow, vendorRow) ==
    [MPN            |-> companyRow.MPN,
     companyRow     |-> companyRow,
     vendorRow      |-> vendorRow,
     isOrphaned     |-> vendorRow.isNull,
     costDifference |-> IF ~vendorRow.isNull
                        THEN FalsyToNull(NumSub(companyRow.Cost, vendorRow.row.Cost))
                        ELSE Null]

\* an item whose costDifference is taken from the vendor's unit cost
MatchedItemByUnitCost(companyRow, vendorRow) ==
    [MPN            |-> companyRow.MPN,
     companyRow     |-> companyRow,
     vendorRow      |-> vendorRow,
     isOrphaned     |-> vendorRow.isNull,
     costDifference |-> IF ~vendorRow.isNull
                        THEN Num(NumSub(companyRow.Cost, vendorRow.row.UnitCost))
                        ELSE Null]

\* the object the map callback returns
MatchedItem(companyRow, vendorRow) ==
    [MPN            |-> companyRow.MPN,
     companyRow     |-> companyRow,
     vendorRow      |-> vendorRow,
     isOrphaned     |-> vendorRow.isNull,
     costDifference |-> IF ~vendorRow.isNull
                        THEN Num(NumSub(companyRow.Cost, vendorRow.row.Cost))
                        ELSE Null]

MatchedRow(companyRow, vendorLookup) ==
    MatchedItem(companyRow, GetOrNull(vendorLookup, companyRow.MPN))

\* a join that drops the company rows without a vendor row
MatchedRowsInnerJoin(companyRows, vendorLookup) ==
    SelectSeq([i \in 1..Len(companyRows) |-> MatchedRow(companyRows[i], vendorLookup)],
              LAMBDA item : ~item.isOrphaned)

\* companyRows.map(companyRow => ...)
MatchedRows(companyRows, vendorLookup) ==
    [i \in 1..Len(companyRows) |-> MatchedRow(companyRows[i], vendorLookup)]

matchItems(companyRows, vendorRows) ==
    MatchedRows(companyRows, NewMap(vendorRows, 1, << >>))

(***************************************************************************)
(* Markup.                                                                 *)
(***************************************************************************)
\* a price that divides the cost by the multiplier
calculatePriceByDivision(cost, markup) == NumDiv(cost, markup.multiplier)

calculatePrice(cost, markup) == NumMul(cost, markup.multiplier)

\* the callback of applyPriceUpdates
UpdatedRow(item, markup) ==
    IF ~item.vendorRow.isNull
    THEN [item.companyRow EXCEPT !.Cost = item.vendorRow.row.Cost,
                                 !.Price = calculatePrice(item.vendorRow.row.Cost, markup)]
    ELSE item.companyRow

applyPriceUpdates(matchedItems, markup) ==
    [i \in 1..Len(matchedItems) |-> UpdatedRow(matchedItems[i], markup)]

\* properties every plain object inherits from Object.prototype
ObjectPrototypeKeys == {"constructor", "toString", "valueOf", "hasOwnProperty", "__proto__"}

\* the value of an inherited property (a function or Object.prototype itself)
InheritedProperty(key) == [inherited |-> key]

\* object[key] of a plain object: an own property, else an inherited one,
\* else undefined (found = FALSE); every value found is truthy
PropertyOf(object, key) ==
    IF key \in DOMAIN object THEN [found |-> TRUE, value |-> object[key]]
    ELSE IF key \in ObjectPrototypeKeys
    THEN [found |-> TRUE, value |-> InheritedProperty(key)]
    ELSE [found |-> FALSE, value |-> InheritedProperty(key)]

\* markups[subclass] || defaultMarkup
getMarkupForSubclass(subclass, markups, defaultMarkup) ==
    IF PropertyOf(markups, subclass).found
    THEN PropertyOf(markups, subclass).value
    ELSE defaultMarkup

(***************************************************************************)
(* Stores.  A file store is [data, normalizedRows]; data is the FileData   *)
(* record, whose rows are [isNull, val] and whose file and filename are    *)
(* "null" when absent.                                                     *)
(***************************************************************************)
NullRows == [isNull |-> TRUE, val |-> <<>>]

Rows(r) == [isNull |-> FALSE, val |-> r]

NullData == [file |-> "null", headers |-> NullHeaders, rows |-> NullRows, filename |-> "null"]

\* a file store after construction
NewFileStore == [data |-> NullData, normalizedRows |-> <<>>]

BaseFileStore_setFile(store, data, filename, file) ==
    [store EXCEPT !.data = [file     |-> file,
                            headers  |-> Headers(data.headers),
                            rows     |-> Rows(data.rows),
                            filename |-> filename]]

BaseFileStore_clearFile(store) == [store EXCEPT !.data = NullData]

\* a setFile that is not overridden to clear normalizedRows
VendorStore_setFileInherited(store, data, filename, file) ==
    BaseFileStore_setFile(store, data, filename, file)

VendorStore_setFile(store, data, filename, file) ==
    [BaseFileStore_setFile(store, data, filename, file) EXCEPT !.normalizedRows = <<>>]

VendorStore_clearFile(store) ==
    [BaseFileStore_clearFile(store) EXCEPT !.normalizedRows = <<>>]

VendorStore_normalizeRows(store, mapping) ==
    IF store.data.rows.isNull THEN store
    ELSE [store EXCEPT !.normalizedRows =
              processVendorRows(store.data.rows.val, mapping, "function").normalized]

CompanyStore_setFile(store, data, filename, file) ==
    [BaseFileStore_setFile(store, data, filename, file) EXCEPT !.normalizedRows = <<>>]

CompanyStore_clearFile(store) ==
    [BaseFileStore_clearFile(store) EXCEPT !.normalizedRows = <<>>]

CompanyStore_normalizeRows(store) ==
    IF store.data.rows.isNull \/ store.data.headers.isNull THEN store
    ELSE [store EXCEPT !.normalizedRows =
              processCompanyRows(store.data.rows.val, store.data.headers, "function").normalized]

\* the mapping store after construction
NewMappingStore ==
    [vendorMapping  |-> NullMapping,
     companyMapping |-> NullMapping,
     isMapped       |-> FALSE,
     matchedItems   |-> <<>>]

mapVendorFile(store, mapping) ==
    IF mapping.kind # "null"
    THEN [store EXCEPT !.vendorMapping = mapping, !.isMapped = TRUE]
    ELSE store

mapCompanyFile(store, mapping) ==
    IF mapping.kind # "null" THEN [store EXCEPT !.companyMapping = mapping] ELSE store

setIsMapped(store, value) == [store EXCEPT !.isMapped = value]

clearVendorMapping(store) == [store EXCEPT !.vendorMapping = NullMapping, !.isMapped = FALSE]

clearCompanyMapping(store) == [store EXCEPT !.companyMapping = NullMapping]

\* this.matchedItems.length = 0; this.matchedItems.push(...items)
setMatchedItems(store, items) == [store EXCEPT !.matchedItems = <<>> \o items]

\* the derived list of the orphaned items
orphanedItems(store) == SelectSeq(store.matchedItems, LAMBDA item : item.isOrphaned)

\* a clearAll that leaves the matched items in place
clearAllKeepingMatches(store) == clearCompanyMapping(clearVendorMapping(store))

\* the part of clearAll that acts on the mapping store itself
clearAll(store) ==
    [clearCompanyMapping(clearVendorMapping(store)) EXCEPT !.matchedItems = <<>>]

(***************************************************************************)
(* State.                                                                  *)
(*   kind            which processor the entry points belong to            *)
(*                   ("vendor" / "company"), "match" for matching and      *)
(*                   markup, "number" and "markup" for parseNumber and     *)
(*                   getMarkupForSubclass, "stores" for the stores called  *)
(*                   directly, "upload" for the upload page                *)
(*   op, impl        the last operation applied (kept at "init" by the     *)
(*                   upload page); which of the two                        *)
(*                   implementations of the processors is in use           *)
(*                   ("function": vendor-processor.ts/company-processor.ts,*)
(*                   "class": the BaseProcessor subclasses)                *)
(*   rows            the rows argument of the entry points                 *)
(*   mapping         the config argument of the vendor entry points        *)
(*   headers         the config argument of the company entry points       *)
(*   rowIndex        the rowIndex argument of the single-row entry point   *)
(*   parsed          what parseVendorRow / parseCompanyRow returned or     *)
(*                   threw                                                 *)
(*   result          what processVendorRows / processCompanyRows returned  *)
(*   companyRows,    the arguments of matchItems (normalized rows)         *)
(*   vendorRows                                                            *)
(*   matchedItems    what matchItems returned                              *)
(*   markup          the markup argument of applyPriceUpdates              *)
(*   updatedRows     what applyPriceUpdates returned                       *)
(*   subclass,       the arguments of getMarkupForSubclass                 *)
(*   markupTable,                                                          *)
(*   defaultMarkup                                                         *)
(*   selected        what getMarkupForSubclass returned                    *)
(*   vendorStore,    the three store singletons                            *)
(*   companyStore,                                                         *)
(*   mappingStore                                                          *)
(*   file,           the state of the FileUpload component                 *)
(*   currentFileType,                                                      *)
(*   isLoading, errorMessage, showColumnSelector                           *)
(*   dialogOpen      whether the file dialog opened by fileInput.click()   *)
(*                   is showing                                            *)
(*   pending         the readExcelFile calls parseFile is awaiting         *)
(*   selections,     the state of the ColumnSelector component             *)
(*   enabledOption                                                         *)
(***************************************************************************)
VARIABLES kind, op, impl, rows, mapping, headers, rowIndex, parsed, result,
          companyRows, vendorRows, matchedItems, markup, updatedRows,
          subclass, markupTable, defaultMarkup, selected,
          vendorStore, companyStore, mappingStore,
          file, currentFileType, isLoading, errorMessage, showColumnSelector,
          dialogOpen, pending, selections, enabledOption

rowVars == <<kind, impl, rows, mapping, headers, rowIndex, parsed, result>>

matchVars == <<companyRows, vendorRows, matchedItems, markup, updatedRows>>

lookupVars == <<subclass, markupTable, defaultMarkup, selected>>

\* the variables of the processor entry points other than mapping
callVars == <<kind, impl, rows, headers, rowIndex, parsed, result>>

storeVars == <<vendorStore, companyStore, mappingStore>>

uploadVars == <<file, currentFileType, isLoading, errorMessage, showColumnSelector,
                dialogOpen, pending>>

selectorVars == <<selections, enabledOption>>

appVars == <<storeVars, uploadVars, selectorVars>>

vars == <<op, rowVars, matchVars, lookupVars, appVars>>

Impls == {"function", "class"}

\* strings used in the cells
sA == <<"A">>
sB == <<"B">>
sBlank == <<" ">>
sAbc == <<"a", "b", "c">>
sMoney == <<"$", "1", ",", "2", "3", "4", ".", "5", "0">>
sTwelveAbc == <<"1", "2", "a", "b", "c">>
sMinusFive == <<"-", "5">>
sInfinity == <<"INF">>
sTwoPointFive == <<" ", "2", ".", "5">>
sWidget == <<" ", "W", " ">>

RECURSIVE SeqsUpTo(_, _)
SeqsUpTo(S, n) ==
    IF n = 0 THEN {<<>>}
    ELSE LET shorter == SeqsUpTo(S, n - 1)
         IN  shorter \cup {Append(q, x) : q \in {r \in shorter : Len(r) = n - 1}, x \in S}

(***************************************************************************)
(* Vendor inputs.                                                          *)
(***************************************************************************)
MPNCells == {Null, Undef, Str(<<>>), Str(sA), Str(sBlank), Num(Int2Num(7)), Bool(TRUE)}

CostCells ==
    {Null, Str(<<>>), Str(sAbc), Str(sMoney), Str(sTwelveAbc), Str(sMinusFive),
     Str(sInfinity), Num(Int2Num(-3)), Num(Int2Num(0)), Num(Int2Num(10)),
     Num(NaN), Num(Inf(1))}

DividerCells ==
    {Null, Undef, Str(<<>>), Str(sAbc), Str(sBlank), Str(sTwoPointFive), Str(sInfinity),
     Num(Int2Num(0)), Num(Int2Num(4)), Num(Int2Num(-1)), Num(Inf(1)), Num(NaN)}

\* single vendor rows <<MPN, Cost, Divider>> and their prefixes (ragged rows)
VendorRowCells ==
    {<<>>}
    \cup {<<m>> : m \in MPNCells}
    \cup {<<m, c>> : m \in MPNCells, c \in CostCells}
    \cup {<<m, c, u>> : m \in MPNCells, c \in CostCells, u \in DividerCells}

\* the rows vendor batches are made of
VendorBatchRowCells ==
    {<<Str(sA), Num(Int2Num(10)), Num(Int2Num(4))>>,
     <<Str(sB), Str(sMoney)>>,
     <<Str(<<>>), Num(Int2Num(10)), Num(Int2Num(4))>>,
     <<Str(sA), Str(sAbc), Num(Int2Num(0))>>,
     <<Str(sB)>>,
     <<Num(Int2Num(7)), Num(Int2Num(-3)), Str(sAbc)>>,
     <<>>}

Mappings ==
    {NullMapping, EmptyMapping,
     Mapping(0, 1), Mapping(0, 2), Mapping(-1, 1),
     MappingUD(0, 1, 2), MappingUD(0, 1, 3), MappingUD(0, 1, -1)}

NotParsed == [ok |-> FALSE, val |-> <<>>, err |-> NoErr]

NoMarkup == [multiplier |-> NaN]

EmptyTable == [key \in {} |-> NoMarkup]

\* the variables of the markup lookup before anything is looked up
NothingLookedUp ==
    /\ subclass = ""
    /\ markupTable = EmptyTable
    /\ defaultMarkup = NoMarkup
    /\ selected = NoMarkup

\* the ColumnSelector component when it is created
NoSelections == [MPN |-> -1, Cost |-> -1, UnitDivider |-> -1]

SelectorCreated ==
    /\ selections = NoSelections
    /\ enabledOption = FALSE

\* the stores and the components after construction
NothingLoaded ==
    /\ vendorStore = NewFileStore
    /\ companyStore = NewFileStore
    /\ mappingStore = NewMappingStore
    /\ file = "null"
    /\ currentFileType = "vendor"
    /\ isLoading = FALSE
    /\ errorMessage = ""
    /\ showColumnSelector = FALSE
    /\ dialogOpen = FALSE
    /\ pending = {}
    /\ SelectorCreated

\* the variables of matching before anything is matched
NothingMatched ==
    /\ companyRows = <<>>
    /\ vendorRows = <<>>
    /\ matchedItems = <<>>
    /\ markup = NoMarkup
    /\ updatedRows = <<>>

InitVendor ==
    /\ kind = "vendor"
    /\ op = "init"
    /\ impl \in Impls
    /\ rows \in SeqsUpTo(VendorBatchRowCells, MaxRows) \cup {<<r>> : r \in VendorRowCells}
    /\ mapping \in Mappings
    /\ headers = NullHeaders
    /\ rowIndex = 0
    /\ parsed = NotParsed
    /\ result = EmptyResult
    /\ NothingMatched
    /\ NothingLookedUp
    /\ NothingLoaded

(***************************************************************************)
(* Company inputs.                                                         *)
(***************************************************************************)
RequiredHeaders == <<"MPN", "Item", "Cost", "Price">>

AllHeaders == <<"MPN", "Item", "Description", "PreferredVendor", "Cost", "Price", "U/M">>

HeadersWithoutItem == <<"MPN", "Cost", "Price">>

CompanyMPNCells == {Null, Undef, Str(<<>>), Str(sA), Str(sWidget), Num(Int2Num(7))}

ItemCells == {Null, Undef, Str(<<>>), Str(sBlank), Str(sWidget), Num(Int2Num(0)), Num(Int2Num(5))}

AmountCells ==
    {Null, Str(sAbc), Str(sMoney), Str(sMinusFive), Num(Int2Num(-3)),
     Num(Int2Num(0)), Num(Int2Num(10)), Num(NaN)}

OptionalCells == {Null, Undef, Str(<<>>), Str(sAbc), Str(sBlank), Num(Int2Num(0)), Num(Int2Num(5))}

\* rows under RequiredHeaders
RequiredRowCells ==
    {<<m, i, c, p>> : m \in CompanyMPNCells, i \in ItemCells,
                      c \in AmountCells, p \in AmountCells}

\* rows under AllHeaders: the optional cells vary, and one required cell
FullRowCells ==
    {<<Str(sA), i, d, v, Num(Int2Num(10)), p, u>> :
        i \in {Str(sWidget), Str(sBlank)}, d \in OptionalCells, v \in OptionalCells,
        p \in {Num(Int2Num(10)), Str(sAbc)}, u \in OptionalCells}

\* the rows company batches are made of
CompanyBatchRowCells ==
    {<<Str(sA), Str(sWidget), Num(Int2Num(10)), Str(sMoney)>>,
     <<Num(Int2Num(7)), Num(Int2Num(5)), Num(Int2Num(0)), Num(Int2Num(0))>>,
     <<Str(<<>>), Str(sWidget), Num(Int2Num(10)), Num(Int2Num(10))>>,
     <<Str(sA), Str(sBlank), Num(Int2Num(10)), Num(Int2Num(10))>>,
     <<Str(sB), Str(sWidget), Num(Int2Num(-3)), Num(Int2Num(10))>>,
     <<Str(sB), Num(Int2Num(10)), Num(Int2Num(10))>>}

\* a header row that names Cost twice, and rows under it
DuplicateHeaders == <<"MPN", "Item", "Cost", "Price", "Cost">>

DuplicateRowCells ==
    {<<Str(sA), Str(sWidget), Num(Int2Num(10)), Num(Int2Num(10)), c>> :
        c \in {Num(Int2Num(4)), Str(sAbc), Null}}

CompanyInputs ==
    {[headers |-> Headers(RequiredHeaders), rows |-> <<r>>] : r \in RequiredRowCells}
    \cup {[headers |-> Headers(AllHeaders), rows |-> <<r>>] : r \in FullRowCells}
    \cup {[headers |-> Headers(DuplicateHeaders), rows |-> <<r>>] : r \in DuplicateRowCells}
    \cup {[headers |-> h, rows |-> << <<>> >>] : h \in {Headers(<<>>), NullHeaders}}
    \cup {[headers |-> h, rows |-> b] :
            h \in {Headers(RequiredHeaders), Headers(HeadersWithoutItem),
                   Headers(<<>>), NullHeaders},
            b \in SeqsUpTo(CompanyBatchRowCells, MaxRows)}

InitCompany ==
    /\ kind = "company"
    /\ op = "init"
    /\ impl \in Impls
    /\ \E in \in CompanyInputs : rows = in.rows /\ headers = in.headers
    /\ mapping = NullMapping
    /\ rowIndex = 0
    /\ parsed = NotParsed
    /\ result = EmptyResult
    /\ NothingMatched
    /\ NothingLookedUp
    /\ NothingLoaded

(***************************************************************************)
(* Inputs of matching: rows the two processors normalize.                  *)
(***************************************************************************)
sGadget == <<"G">>

VendorMatchCells ==
    {<<Str(sA), Num(Int2Num(10))>>,
     <<Str(sA), Num(Int2Num(4)), Num(Int2Num(4))>>,
     <<Str(sB), Str(sMoney)>>}

CompanyMatchCells ==
    {<<Str(sA), Str(sWidget), Str(sAbc), Null, Num(Int2Num(10)), Num(Int2Num(25)), Str(sB)>>,
     <<Str(sA), Str(sGadget), Null, Null, Str(sMoney), Num(Int2Num(0)), Null>>,
     <<Num(Int2Num(7)), Str(sWidget), Null, Str(sA), Num(Int2Num(0)), Num(Int2Num(10)), Null>>}

NormalizedVendorRows ==
    {parseVendorRow(r, MappingUD(0, 1, 2), 0, "function").val : r \in VendorMatchCells}

NormalizedCompanyRows ==
    {parseCompanyRow(r, Headers(AllHeaders), 0).val : r \in CompanyMatchCells}

Markups == {[multiplier |-> Fin(3, 2)], [multiplier |-> Int2Num(2)], [multiplier |-> Int2Num(0)]}

InitMatch ==
    /\ kind = "match"
    /\ op = "init"
    /\ impl = "function"
    /\ rows = <<>>
    /\ mapping = NullMapping
    /\ headers = NullHeaders
    /\ rowIndex = 0
    /\ parsed = NotParsed
    /\ result = EmptyResult
    /\ companyRows \in SeqsUpTo(NormalizedCompanyRows, MaxItems)
    /\ vendorRows \in SeqsUpTo(NormalizedVendorRows, MaxVendors)
    /\ matchedItems = <<>>
    /\ markup = NoMarkup
    /\ updatedRows = <<>>
    /\ NothingLookedUp
    /\ NothingLoaded

(***************************************************************************)
(* Inputs of parseNumber: kind "number", the value is the one cell of the  *)
(* one row.                                                                *)
(***************************************************************************)
sDollar == <<"$">>
sTwoDots == <<"1", ".", "2", ".", "3">>
sSpacedThousands == <<" ", "1", ",", "0", "0", "0", " ", "$">>

NumberInputs ==
    {Null, Undef, Bool(TRUE), Bool(FALSE),
     Num(NaN), Num(Inf(1)), Num(Inf(-1)), Num(Int2Num(0)), Num(Int2Num(-3)), Num(Fin(5, 2)),
     Str(<<>>), Str(sBlank), Str(sDollar), Str(sAbc), Str(sMoney), Str(sTwelveAbc),
     Str(sMinusFive), Str(sInfinity), Str(sTwoPointFive), Str(sTwoDots), Str(sSpacedThousands)}

InitNumber ==
    /\ kind = "number"
    /\ op = "init"
    /\ impl \in Impls
    /\ rows \in {<< <<v>> >> : v \in NumberInputs}
    /\ mapping = NullMapping
    /\ headers = NullHeaders
    /\ rowIndex = 0
    /\ parsed = NotParsed
    /\ result = EmptyResult
    /\ NothingMatched
    /\ NothingLookedUp
    /\ NothingLoaded

(***************************************************************************)
(* Inputs of getMarkupForSubclass: kind "markup".                          *)
(***************************************************************************)
Subclasses == {"", "ABC", "AB", "ABC-1", "abc", "XYZ", "constructor", "toString"}

MarkupTables ==
    {EmptyTable,
     [key \in {"ABC"} |-> [multiplier |-> Fin(3, 2)]],
     [key \in {"ABC", "XYZ"} |->
         IF key = "ABC" THEN [multiplier |-> Fin(3, 2)] ELSE [multiplier |-> Int2Num(2)]],
     [key \in {"ABC-1"} |-> [multiplier |-> Int2Num(0)]]}

DefaultMarkups == {[multiplier |-> Fin(5, 4)], [multiplier |-> Fin(3, 2)]}

InitMarkup ==
    /\ kind = "markup"
    /\ op = "init"
    /\ impl = "function"
    /\ rows = <<>>
    /\ mapping = NullMapping
    /\ headers = NullHeaders
    /\ rowIndex = 0
    /\ parsed = NotParsed
    /\ result = EmptyResult
    /\ NothingMatched
    /\ subclass \in Subclasses
    /\ markupTable \in MarkupTables
    /\ defaultMarkup \in DefaultMarkups
    /\ selected = NoMarkup
    /\ NothingLoaded

Init == InitVendor \/ InitCompany \/ InitMatch \/ InitNumber \/ InitMarkup

(***************************************************************************)
(* Operations.                                                             *)
(***************************************************************************)
\* processVendorRows(rows, mapping)
ProcessVendorRowsCall ==
    /\ kind = "vendor"
    /\ op = "init"
    /\ op' = "processRows"
    /\ result' = processVendorRows(rows, mapping, impl)
    /\ UNCHANGED <<kind, impl, rows, mapping, headers, rowIndex, parsed>>
    /\ UNCHANGED <<matchVars, lookupVars>>
    /\ UNCHANGED appVars

\* parseVendorRow(rows[i], mapping, i)
ParseVendorRowCall(i) ==
    /\ kind = "vendor"
    /\ op = "init"
    /\ i < Len(rows)
    /\ op' = "parseRow"
    /\ rowIndex' = i
    /\ parsed' = parseVendorRow(rows[i + 1], mapping, i, impl)
    /\ UNCHANGED <<kind, impl, rows, mapping, headers, result>>
    /\ UNCHANGED <<matchVars, lookupVars>>
    /\ UNCHANGED appVars

\* processCompanyRows(rows, headers)
ProcessCompanyRowsCall ==
    /\ kind = "company"
    /\ op = "init"
    /\ op' = "processRows"
    /\ result' = processCompanyRows(rows, headers, impl)
    /\ UNCHANGED <<kind, impl, rows, mapping, headers, rowIndex, parsed>>
    /\ UNCHANGED <<matchVars, lookupVars>>
    /\ UNCHANGED appVars

\* parseCompanyRow(rows[i], headers, i)
ParseCompanyRowCall(i) ==
    /\ kind = "company"
    /\ op = "init"
    /\ i < Len(rows)
    /\ op' = "parseRow"
    /\ rowIndex' = i
    /\ parsed' = parseCompanyRow(rows[i + 1], headers, i)
    /\ UNCHANGED <<kind, impl, rows, mapping, headers, result>>
    /\ UNCHANGED <<matchVars, lookupVars>>
    /\ UNCHANGED appVars

\* extractRawCompanyRow(rows[i], headers, i)
ExtractRawCompanyRowCall(i) ==
    /\ kind = "company"
    /\ op = "init"
    /\ i < Len(rows)
    /\ op' = "extractRaw"
    /\ rowIndex' = i
    /\ parsed' = extractRawCompanyRow(rows[i + 1], headers, i)
    /\ UNCHANGED <<kind, impl, rows, mapping, headers, result>>
    /\ UNCHANGED <<matchVars, lookupVars>>
    /\ UNCHANGED appVars

\* parseNumber(rows[0][0])
ParseNumberCall ==
    /\ kind = "number"
    /\ op = "init"
    /\ op' = "parseNumber"
    /\ parsed' = Ok(parseNumber(rows[1][1]))
    /\ UNCHANGED <<kind, impl, rows, mapping, headers, rowIndex, result>>
    /\ UNCHANGED <<matchVars, lookupVars>>
    /\ UNCHANGED appVars

\* a matchItems that consumes the vendor rows it has indexed
MatchItemsCallConsuming ==
    /\ kind = "match"
    /\ op = "init"
    /\ op' = "matchItems"
    /\ matchedItems' = matchItems(companyRows, vendorRows)
    /\ vendorRows' = <<>>
    /\ UNCHANGED <<rowVars, companyRows, markup, updatedRows, lookupVars>>
    /\ UNCHANGED appVars

\* matchItems(companyRows, vendorRows)
MatchItemsCall ==
    /\ kind = "match"
    /\ op = "init"
    /\ op' = "matchItems"
    /\ matchedItems' = matchItems(companyRows, vendorRows)
    /\ UNCHANGED <<rowVars, companyRows, vendorRows, markup, updatedRows, lookupVars>>
    /\ UNCHANGED appVars

\* matchItems(companyRows, vendorRows) called a second time with the same
\* arguments
MatchItemsAgainCall ==
    /\ kind = "match"
    /\ op = "matchItems"
    /\ op' = "matchItemsAgain"
    /\ matchedItems' = matchItems(companyRows, vendorRows)
    /\ UNCHANGED <<rowVars, companyRows, vendorRows, markup, updatedRows, lookupVars>>
    /\ UNCHANGED appVars

\* applyPriceUpdates(matchedItems, m)
ApplyPriceUpdatesCall(m) ==
    /\ kind = "match"
    /\ op = "matchItems"
    /\ op' = "applyPriceUpdates"
    /\ markup' = m
    /\ updatedRows' = applyPriceUpdates(matchedItems, m)
    /\ UNCHANGED <<rowVars, companyRows, vendorRows, matchedItems, lookupVars>>
    /\ UNCHANGED appVars

\* getMarkupForSubclass(subclass, markupTable, defaultMarkup)
GetMarkupForSubclassCall ==
    /\ kind = "markup"
    /\ op = "init"
    /\ op' = "getMarkupForSubclass"
    /\ selected' = getMarkupForSubclass(subclass, markupTable, defaultMarkup)
    /\ UNCHANGED <<rowVars, matchVars, subclass, markupTable, defaultMarkup>>
    /\ UNCHANGED appVars

Next ==
    \/ ProcessVendorRowsCall
    \/ \E i \in 0..MaxRows : ParseVendorRowCall(i)
    \/ ProcessCompanyRowsCall
    \/ \E i \in 0..MaxRows : ParseCompanyRowCall(i)
    \/ \E i \in 0..MaxRows : ExtractRawCompanyRowCall(i)
    \/ ParseNumberCall
    \/ MatchItemsCall
    \/ MatchItemsAgainCall
    \/ \E m \in Markups : ApplyPriceUpdatesCall(m)
    \/ GetMarkupForSubclassCall

Spec == Init /\ [][Next]_vars

(***************************************************************************)
(* Files.  A File is named by an identifier; FileName is its name property *)
(* and readExcelFile what reading it resolves to or rejects with.          *)
(***************************************************************************)
Files == {"vendorA", "vendorB", "companyA", "companyOld", "unreadable"}

FileName(f) ==
    CASE f = "vendorA"      -> "vendorA.xlsx"
      [] f = "vendorB"      -> "vendorB.xlsx"
      [] f = "companyA"     -> "companyA.xlsx"
      [] f = "companyOld"   -> "companyOld.xlsx"
      [] f = "unreadable"   -> "unreadable.xlsx"

\* the header names the upload requires of a company file
UploadHeaders == <<"Preferred Vendor", "Item", "Description", "Cost", "Price", "MPN", "U/M">>

VendorARows ==
    << <<Str(sA), Num(Int2Num(10)), Num(Int2Num(4))>>,
       <<Str(sB), Str(sMoney), Null>>,
       <<Null, Num(Int2Num(10)), Null>> >>

VendorBRows == << <<Str(sA), Num(Int2Num(4))>> >>

\* rows under UploadHeaders
UploadedCompanyRows ==
    << <<Str(sB), Str(sWidget), Str(sAbc), Num(Int2Num(10)), Num(Int2Num(25)), Str(sA), Null>>,
       <<Null, Str(sGadget), Null, Str(sMoney), Num(Int2Num(0)), Num(Int2Num(7)), Null>>,
       <<Null, Str(sGadget), Null, Str(sAbc), Num(Int2Num(0)), Str(sB), Null>> >>

\* rows under AllHeaders
CompanyOldRows ==
    << <<Str(sA), Str(sWidget), Str(sAbc), Null, Num(Int2Num(10)), Num(Int2Num(25)), Str(sB)>>,
       <<Num(Int2Num(7)), Str(sWidget), Null, Str(sA), Num(Int2Num(0)), Num(Int2Num(10)), Null>> >>

Sheet(headerRow, dataRows) == [headers |-> headerRow, rows |-> dataRows]

NoSheet == Sheet(<<>>, <<>>)

\* readExcelFile(f): resolves to {headers, rows}, or rejects
readExcelFile(f) ==
    CASE f = "vendorA"      -> Ok(Sheet(<<"MPN", "Cost", "Div">>, VendorARows))
      [] f = "vendorB"      -> Ok(Sheet(<<"Part", "Price">>, VendorBRows))
      [] f = "companyA"     -> Ok(Sheet(UploadHeaders, UploadedCompanyRows))
      [] f = "companyOld"   -> Ok(Sheet(AllHeaders, CompanyOldRows))
      [] f = "unreadable"   -> Throw(BareError("Error", <<"Failed to read file">>), NoSheet)

ReadableFiles == {f \in Files : readExcelFile(f).ok}

(***************************************************************************)
(* The stores called directly: kind "stores".  mapping is the argument of  *)
(* the latest vendorStore.normalizeRows call.                              *)
(***************************************************************************)
VendorFiles == {"vendorA", "vendorB"}

CompanyFiles == {"companyA", "companyOld"}

StoreMappings == {NullMapping, Mapping(0, 1), MappingUD(0, 1, 2)}

InitStores ==
    /\ kind = "stores"
    /\ op = "init"
    /\ impl = "function"
    /\ rows = <<>>
    /\ mapping = NullMapping
    /\ headers = NullHeaders
    /\ rowIndex = 0
    /\ parsed = NotParsed
    /\ result = EmptyResult
    /\ NothingMatched
    /\ NothingLookedUp
    /\ NothingLoaded

\* vendorStore.setFile(data, f.name, f), data read from f
VendorSetFileCall(f) ==
    /\ op' = "vendorStore.setFile"
    /\ vendorStore' = VendorStore_setFile(vendorStore, readExcelFile(f).val, FileName(f), f)
    /\ UNCHANGED <<callVars, mapping, matchVars, lookupVars>>
    /\ UNCHANGED <<companyStore, mappingStore, uploadVars, selectorVars>>

VendorClearFileCall ==
    /\ op' = "vendorStore.clearFile"
    /\ vendorStore' = VendorStore_clearFile(vendorStore)
    /\ UNCHANGED <<callVars, mapping, matchVars, lookupVars>>
    /\ UNCHANGED <<companyStore, mappingStore, uploadVars, selectorVars>>

VendorNormalizeRowsCall(m) ==
    /\ op' = "vendorStore.normalizeRows"
    /\ mapping' = m
    /\ vendorStore' = VendorStore_normalizeRows(vendorStore, m)
    /\ UNCHANGED <<callVars, matchVars, lookupVars>>
    /\ UNCHANGED <<companyStore, mappingStore, uploadVars, selectorVars>>

CompanySetFileCall(f) ==
    /\ op' = "companyStore.setFile"
    /\ companyStore' = CompanyStore_setFile(companyStore, readExcelFile(f).val, FileName(f), f)
    /\ UNCHANGED <<callVars, mapping, matchVars, lookupVars>>
    /\ UNCHANGED <<vendorStore, mappingStore, uploadVars, selectorVars>>

CompanyClearFileCall ==
    /\ op' = "companyStore.clearFile"
    /\ companyStore' = CompanyStore_clearFile(companyStore)
    /\ UNCHANGED <<callVars, mapping, matchVars, lookupVars>>
    /\ UNCHANGED <<vendorStore, mappingStore, uploadVars, selectorVars>>

CompanyNormalizeRowsCall ==
    /\ op' = "companyStore.normalizeRows"
    /\ companyStore' = CompanyStore_normalizeRows(companyStore)
    /\ UNCHANGED <<callVars, mapping, matchVars, lookupVars>>
    /\ UNCHANGED <<vendorStore, mappingStore, uploadVars, selectorVars>>

MapVendorFileCall(m) ==
    /\ op' = "mappingStore.mapVendorFile"
    /\ mappingStore' = mapVendorFile(mappingStore, m)
    /\ UNCHANGED <<callVars, mapping, matchVars, lookupVars>>
    /\ UNCHANGED <<vendorStore, companyStore, uploadVars, selectorVars>>

MapCompanyFileCall(m) ==
    /\ op' = "mappingStore.mapCompanyFile"
    /\ mappingStore' = mapCompanyFile(mappingStore, m)
    /\ UNCHANGED <<callVars, mapping, matchVars, lookupVars>>
    /\ UNCHANGED <<vendorStore, companyStore, uploadVars, selectorVars>>

SetIsMappedCall(value) ==
    /\ op' = "mappingStore.setIsMapped"
    /\ mappingStore' = setIsMapped(mappingStore, value)
    /\ UNCHANGED <<callVars, mapping, matchVars, lookupVars>>
    /\ UNCHANGED <<vendorStore, companyStore, uploadVars, selectorVars>>

ClearVendorMappingCall ==
    /\ op' = "mappingStore.clearVendorMapping"
    /\ mappingStore' = clearVendorMapping(mappingStore)
    /\ UNCHANGED <<callVars, mapping, matchVars, lookupVars>>
    /\ UNCHANGED <<vendorStore, companyStore, uploadVars, selectorVars>>

ClearCompanyMappingCall ==
    /\ op' = "mappingStore.clearCompanyMapping"
    /\ mappingStore' = clearCompanyMapping(mappingStore)
    /\ UNCHANGED <<callVars, mapping, matchVars, lookupVars>>
    /\ UNCHANGED <<vendorStore, companyStore, uploadVars, selectorVars>>

\* mappingStore.setMatchedItems(matchItems(companyStore.normalizedRows,
\* vendorStore.normalizedRows))
SetMatchedItemsCall ==
    /\ op' = "mappingStore.setMatchedItems"
    /\ mappingStore' = setMatchedItems(mappingStore,
                           matchItems(companyStore.normalizedRows, vendorStore.normalizedRows))
    /\ UNCHANGED <<callVars, mapping, matchVars, lookupVars>>
    /\ UNCHANGED <<vendorStore, companyStore, uploadVars, selectorVars>>

\* mappingStore.clearAll()
ClearAllCall ==
    /\ op' = "mappingStore.clearAll"
    /\ companyStore' = CompanyStore_clearFile(companyStore)
    /\ vendorStore' = VendorStore_clearFile(vendorStore)
    /\ mappingStore' = clearAll(mappingStore)
    /\ UNCHANGED <<callVars, mapping, matchVars, lookupVars>>
    /\ UNCHANGED <<uploadVars, selectorVars>>

NextStores ==
    \/ \E f \in VendorFiles : VendorSetFileCall(f)
    \/ VendorClearFileCall
    \/ \E m \in StoreMappings : VendorNormalizeRowsCall(m)
    \/ \E f \in CompanyFiles : CompanySetFileCall(f)
    \/ CompanyClearFileCall
    \/ CompanyNormalizeRowsCall
    \/ \E m \in StoreMappings : MapVendorFileCall(m)
    \/ \E m \in {NullMapping, Mapping(0, 1)} : MapCompanyFileCall(m)
    \/ \E value \in BOOLEAN : SetIsMappedCall(value)
    \/ ClearVendorMappingCall
    \/ ClearCompanyMappingCall
    \/ SetMatchedItemsCall
    \/ ClearAllCall

SpecStores == InitStores /\ [][NextStores]_vars

(***************************************************************************)
(* The FileUpload component, the ColumnSelector it shows and the Match     *)
(* button of the page: kind "upload".  A member of pending is a            *)
(* readExcelFile call that parseFile awaits: the file being read and, for  *)
(* reference, the value currentFileType had when the read was started.     *)
(***************************************************************************)
MaxPending == 2

MaxColumns == 2

UploadFiles == {"vendorA", "companyA", "unreadable"}

FileTypes == {"vendor", "company"}

\* header.toLowerCase().trim() on the header names of the files
ToLowerCaseTrim(h) ==
    CASE h = "MPN"              -> "mpn"
      [] h = "Item"             -> "item"
      [] h = "Description"      -> "description"
      [] h = "PreferredVendor"  -> "preferredvendor"
      [] h = "Preferred Vendor" -> "preferred vendor"
      [] h = "Cost"             -> "cost"
      [] h = "Price"            -> "price"
      [] h = "U/M"              -> "u/m"
      [] h = "Div"              -> "div"
      [] h = "Part"             -> "part"
      [] OTHER                  -> h

\* the required headers no header of the file equals, case and outer blanks
\* aside
MissingHeaders(fileHeaders, requiredHeaders) ==
    SelectSeq(requiredHeaders,
              LAMBDA required :
                  ~\E i \in 1..Len(fileHeaders) :
                      ToLowerCaseTrim(fileHeaders[i]) = ToLowerCaseTrim(required))

\* validateHeaders(headers, requiredHeaders).valid
validateHeaders(fileHeaders, requiredHeaders) ==
    IF Len(fileHeaders) = 0 THEN FALSE
    ELSE MissingHeaders(fileHeaders, requiredHeaders) = <<>>

InitUpload ==
    /\ kind = "upload"
    /\ op = "init"
    /\ impl = "function"
    /\ rows = <<>>
    /\ mapping = NullMapping
    /\ headers = NullHeaders
    /\ rowIndex = 0
    /\ parsed = NotParsed
    /\ result = EmptyResult
    /\ NothingMatched
    /\ NothingLookedUp
    /\ NothingLoaded

\* the variables the components and the stores leave alone
entryVars == <<op, rowVars, matchVars, lookupVars>>

\* uploadByFileType(type); fileInput.click() opens the file dialog
UploadByFileTypeCall(type) ==
    /\ ~dialogOpen
    /\ ~showColumnSelector
    /\ currentFileType' = type
    /\ file' = "null"
    /\ errorMessage' = ""
    /\ dialogOpen' = TRUE
    /\ UNCHANGED <<isLoading, showColumnSelector, pending>>
    /\ UNCHANGED <<entryVars, storeVars, selectorVars>>

\* the file dialog is closed without a file: no change event
DialogDismissed ==
    /\ dialogOpen
    /\ dialogOpen' = FALSE
    /\ UNCHANGED <<file, currentFileType, isLoading, errorMessage, showColumnSelector, pending>>
    /\ UNCHANGED <<entryVars, storeVars, selectorVars>>

\* handleFileSelect with target.files[0] = f, and parseFile up to its await
HandleFileSelectCall(f) ==
    /\ dialogOpen
    /\ Cardinality(pending) < MaxPending
    /\ \A p \in pending : p.file # f
    /\ dialogOpen' = FALSE
    /\ file' = f
    /\ isLoading' = TRUE
    /\ errorMessage' = ""
    /\ pending' = pending \cup {[file |-> f, type |-> currentFileType]}
    /\ UNCHANGED <<currentFileType, showColumnSelector>>
    /\ UNCHANGED <<entryVars, storeVars, selectorVars>>

\* the ColumnSelector is created when showColumnSelector becomes true
SelectorShown ==
    IF showColumnSelector THEN UNCHANGED selectorVars
    ELSE selections' = NoSelections /\ enabledOption' = FALSE

\* the ColumnSelector is destroyed
SelectorHidden ==
    /\ showColumnSelector' = FALSE
    /\ selections' = NoSelections
    /\ enabledOption' = FALSE

\* errorMessage after companyStore.normalizeRows()
NormalizeMessage(sheet) ==
    IF processCompanyRows(sheet.rows, Headers(sheet.headers), "function").errors # <<>>
    THEN "rows failed validation"
    ELSE "Company file loaded and normalized successfully"

\* a catch block that also unloads the stores
ParseFileCatchClearing ==
    /\ errorMessage' = "Failed to parse file"
    /\ vendorStore' = VendorStore_clearFile(vendorStore)
    /\ companyStore' = CompanyStore_clearFile(companyStore)
    /\ UNCHANGED <<showColumnSelector, selectorVars>>

\* the catch block of parseFile
ParseFileCatch ==
    /\ errorMessage' = "Failed to parse file"
    /\ UNCHANGED <<vendorStore, companyStore, showColumnSelector, selectorVars>>

\* the try block of parseFile after readExcelFile resolved to sheet
ParseFileTry(sheet) ==
    IF currentFileType = "company" /\ ~validateHeaders(sheet.headers, UploadHeaders)
    THEN /\ errorMessage' = "Missing required headers"
         /\ UNCHANGED <<storeVars, showColumnSelector, selectorVars>>
    ELSE IF currentFileType = "vendor"
    THEN /\ mappingStore' = setIsMapped(mappingStore, FALSE)
         /\ IF file = "null"
            THEN ParseFileCatch
            ELSE /\ vendorStore' = VendorStore_setFile(vendorStore, sheet, FileName(file), file)
                 /\ showColumnSelector' = TRUE
                 /\ SelectorShown
                 /\ errorMessage' = ""
                 /\ UNCHANGED companyStore
    ELSE /\ UNCHANGED mappingStore
         /\ IF file = "null"
            THEN ParseFileCatch
            ELSE /\ companyStore' =
                        CompanyStore_normalizeRows(
                            CompanyStore_setFile(companyStore, sheet, FileName(file), file))
                 /\ errorMessage' = NormalizeMessage(sheet)
                 /\ UNCHANGED <<vendorStore, showColumnSelector, selectorVars>>

\* readExcelFile(p.file) resolves and parseFile runs to its end
ReadResolved(p) ==
    /\ p \in pending
    /\ readExcelFile(p.file).ok
    /\ pending' = pending \ {p}
    /\ ParseFileTry(readExcelFile(p.file).val)
    /\ isLoading' = FALSE
    /\ UNCHANGED <<file, currentFileType, dialogOpen>>
    /\ UNCHANGED entryVars

\* readExcelFile(p.file) rejects and parseFile runs to its end
ReadRejected(p) ==
    /\ p \in pending
    /\ ~readExcelFile(p.file).ok
    /\ pending' = pending \ {p}
    /\ ParseFileCatch
    /\ UNCHANGED mappingStore
    /\ isLoading' = FALSE
    /\ UNCHANGED <<file, currentFileType, dialogOpen>>
    /\ UNCHANGED entryVars

\* canConfirm of the ColumnSelector (-1 stands for null)
canConfirm ==
    /\ selections.MPN # -1
    /\ selections.Cost # -1
    /\ ~(enabledOption /\ selections.UnitDivider = -1)

\* the selections after handleColumnClick(columnIndex)
ClickedSelections(columnIndex) ==
    IF selections.MPN = -1 THEN [selections EXCEPT !.MPN = columnIndex]
    ELSE IF selections.Cost = -1 THEN [selections EXCEPT !.Cost = columnIndex]
    ELSE IF enabledOption /\ selections.UnitDivider = -1
    THEN [selections EXCEPT !.UnitDivider = columnIndex]
    ELSE IF selections.MPN = columnIndex THEN [selections EXCEPT !.MPN = -1]
    ELSE IF selections.Cost = columnIndex THEN [selections EXCEPT !.Cost = -1]
    ELSE IF selections.UnitDivider = columnIndex THEN [selections EXCEPT !.UnitDivider = -1]
    ELSE [selections EXCEPT !.MPN = columnIndex]

\* a click on the header cell of column columnIndex of the preview
HandleColumnClickCall(columnIndex) ==
    /\ showColumnSelector
    /\ ~dialogOpen
    /\ columnIndex < Len(vendorStore.data.headers.names)
    /\ selections' = ClickedSelections(columnIndex)
    /\ UNCHANGED <<enabledOption, entryVars, storeVars, uploadVars>>

\* toggleOptional('Unit Divider')
ToggleOptionalCall ==
    /\ showColumnSelector
    /\ ~dialogOpen
    /\ enabledOption' = ~enabledOption
    /\ selections' = IF enabledOption THEN [selections EXCEPT !.UnitDivider = -1]
                     ELSE selections
    /\ UNCHANGED <<entryVars, storeVars, uploadVars>>

\* the mapping handleConfirm builds from the selections
SelectedMapping ==
    IF selections.UnitDivider # -1
    THEN MappingUD(selections.MPN, selections.Cost, selections.UnitDivider)
    ELSE Mapping(selections.MPN, selections.Cost)

\* handleConfirm, and handleMappingConfirmed of the FileUpload component
HandleConfirmCall ==
    /\ showColumnSelector
    /\ ~dialogOpen
    /\ canConfirm
    /\ mappingStore' = mapVendorFile(mappingStore, SelectedMapping)
    /\ vendorStore' = VendorStore_normalizeRows(vendorStore, SelectedMapping)
    /\ SelectorHidden
    /\ errorMessage' = "Vendor File mapped and loaded successfully"
    /\ UNCHANGED <<companyStore, file, currentFileType, isLoading, dialogOpen, pending>>
    /\ UNCHANGED entryVars

\* handleCancel, and handleMappingCancelled of the FileUpload component
HandleCancelCall ==
    /\ showColumnSelector
    /\ ~dialogOpen
    /\ SelectorHidden
    /\ UNCHANGED <<file, currentFileType, isLoading, errorMessage, dialogOpen, pending>>
    /\ UNCHANGED <<entryVars, storeVars>>

\* the condition under which the page shows the Match button
canMatch ==
    /\ vendorStore.normalizedRows # <<>>
    /\ companyStore.normalizedRows # <<>>
    /\ mappingStore.matchedItems = <<>>

\* handleMatch
HandleMatchCall ==
    /\ canMatch
    /\ ~dialogOpen
    /\ ~showColumnSelector
    /\ mappingStore' = setMatchedItems(mappingStore,
                           matchItems(companyStore.normalizedRows, vendorStore.normalizedRows))
    /\ UNCHANGED <<vendorStore, companyStore, entryVars, uploadVars, selectorVars>>

NextUpload ==
    \/ \E type \in FileTypes : UploadByFileTypeCall(type)
    \/ DialogDismissed
    \/ \E f \in UploadFiles : HandleFileSelectCall(f)
    \/ \E p \in pending : ReadResolved(p)
    \/ \E p \in pending : ReadRejected(p)
    \/ \E columnIndex \in 0..(MaxColumns - 1) : HandleColumnClickCall(columnIndex)
    \/ ToggleOptionalCall
    \/ HandleConfirmCall
    \/ HandleCancelCall
    \/ HandleMatchCall

SpecUpload == InitUpload /\ [][NextUpload]_vars

(***************************************************************************)
(* Properties of the batch entry points.                                   *)
(***************************************************************************)
\* the elements of a finite set of integers in increasing order
RECURSIVE SortedSeq(_)
SortedSeq(S) ==
    IF S = {} THEN <<>>
    ELSE LET least == CHOOSE x \in S : \A y \in S : x <= y
         IN  <<least>> \o SortedSeq(S \ {least})

\* what the single-row entry point does with the row at position i (1-based)
ParseAt(i) ==
    IF kind = "vendor" THEN parseVendorRow(rows[i], mapping, i - 1, impl)
    ELSE parseCompanyRow(rows[i], headers, i - 1)

ConfigPresent ==
    IF kind = "vendor" THEN mapping.kind # "null" ELSE ~NoHeaders(headers)

FailingPositions == {i \in 1..Len(rows) : ~ParseAt(i).ok}

PassingPositions == (1..Len(rows)) \ FailingPositions

\* C1: with a present config, a batch of n rows of which k fail parseRow
\* yields n - k normalized rows and k errors; the errors carry the 1-based
\* positions of the failing rows in increasing order and the normalized rows
\* are the parse results of the other positions in increasing order.
C1_BatchPartition ==
    (op = "processRows" /\ ConfigPresent) =>
        LET n == Len(rows)
            k == Cardinality(FailingPositions)
        IN  /\ Len(result.normalized) = n - k
            /\ Len(result.errors) = k
            /\ \A j \in 1..Len(result.errors) :
                   /\ j <= k
                   /\ result.errors[j].row = SortedSeq(FailingPositions)[j]
            /\ \A j \in 1..Len(result.normalized) :
                   /\ j <= n - k
                   /\ result.normalized[j] = ParseAt(SortedSeq(PassingPositions)[j]).val

\* a batch of three rows or more whose second row fails between two rows
\* that pass
C1_Witness ==
    /\ op = "processRows" /\ ConfigPresent
    /\ Len(rows) >= 3
    /\ ParseAt(1).ok /\ ~ParseAt(2).ok /\ ParseAt(3).ok
    /\ Len(result.errors) = Len(rows) - Len(result.normalized)

RemoveAt(s, p) == SubSeq(s, 1, p - 1) \o SubSeq(s, p + 1, Len(s))

IndexOutOfRange(row) == OutOfRow(mapping.MPN, row) \/ OutOfRow(mapping.Cost, row)

\* what a batch result says about input position q: the normalized row, or
\* the failure (its kind and issues; the row number is the position itself)
OutcomeAt(res, q) ==
    LET hits   == {j \in 1..Len(res.errors) : res.errors[j].row = q}
        before == Cardinality({j \in 1..Len(res.errors) : res.errors[j].row < q})
    IN  IF hits # {}
        THEN LET e == res.errors[CHOOSE j \in hits : TRUE].error
             IN  [status |-> "error", kind |-> e.kind, issues |-> e.issues, row |-> NoVendorRow]
        ELSE IF q - before \in 1..Len(res.normalized)
        THEN [status |-> "normalized", kind |-> "none", issues |-> <<>>,
              row |-> res.normalized[q - before]]
        ELSE [status |-> "missing", kind |-> "none", issues |-> <<>>, row |-> NoVendorRow]

\* C2: in a vendor batch, a row for which the MPN or Cost index is outside
\* the row produces exactly one error entry, and every other row has the
\* outcome it has in the batch without that row.
C2_OutOfRangeIsolated ==
    (op = "processRows" /\ kind = "vendor" /\ mapping.kind = "full") =>
        \A p \in 1..Len(rows) : IndexOutOfRange(rows[p]) =>
            /\ Cardinality({j \in 1..Len(result.errors) : result.errors[j].row = p}) = 1
            /\ LET without == processVendorRows(RemoveAt(rows, p), mapping, impl)
               IN  \A q \in (1..Len(rows)) \ {p} :
                      /\ OutcomeAt(result, q).status # "missing"
                      /\ OutcomeAt(result, q) = OutcomeAt(without, IF q < p THEN q ELSE q - 1)

\* rows of different lengths, the out-of-range one between two that succeed
C2_Witness ==
    /\ op = "processRows" /\ kind = "vendor" /\ mapping.kind = "full"
    /\ Len(rows) >= 3
    /\ IndexOutOfRange(rows[2])
    /\ Len(rows[1]) # Len(rows[2])
    /\ OutcomeAt(result, 1).status = "normalized"
    /\ OutcomeAt(result, 2).status = "error"
    /\ OutcomeAt(result, 3).status = "normalized"

(***************************************************************************)
(* Properties of the single-row entry points.                              *)
(***************************************************************************)
\* the row given to the single-row entry point, and its mapped cells
ParsedRow == rows[rowIndex + 1]

MPNCell == At(ParsedRow, mapping.MPN)

CostCell == At(ParsedRow, mapping.Cost)

DividerCell == At(ParsedRow, mapping.UD)

DividerNotProvided ==
    \/ ~mapping.hasUD
    \/ OutOfRow(mapping.UD, ParsedRow)
    \/ DividerCell.t \in {"null", "undef"}
    \/ (DividerCell.t = "str" /\ DividerCell.s = <<>>)

VendorRowParsed == op = "parseRow" /\ kind = "vendor" /\ mapping.kind = "full"

\* C8: every vendor row parseVendorRow accepts has UnitCost = Cost /
\* UnitDivider, where UnitDivider is 1 when 'Unit Divider' is not mapped, its
\* index is outside the row or the mapped cell is empty, and is the parsed
\* value of the mapped cell otherwise.
C8_UnitCost ==
    (VendorRowParsed /\ parsed.ok) =>
        /\ parsed.val.UnitCost = NumDiv(parsed.val.Cost, parsed.val.UnitDivider)
        /\ IF DividerNotProvided
           THEN parsed.val.UnitDivider = Int2Num(1)
           ELSE parseNumber(DividerCell) = Num(parsed.val.UnitDivider)

\* the defects of a vendor row under the current mapping
MPNMissing(row) == IsEmptyCell(At(row, mapping.MPN))

ParsedCost(row) == parseNumber(At(row, mapping.Cost))

ParsedDivider(row) == IF mapping.hasUD THEN parseNumber(At(row, mapping.UD)) ELSE Null

CostUnparsable(row) == ParsedCost(row) = Null

CostNegative(row) == ParsedCost(row).t = "num" /\ NumLt0(ParsedCost(row).n)

DividerNotPositive(row) == ParsedDivider(row).t = "num" /\ ~NumGt0(ParsedDivider(row).n)

VendorDefect(row) ==
    MPNMissing(row) \/ CostUnparsable(row) \/ CostNegative(row) \/ DividerNotPositive(row)

\* the single-row entry point raised an error that names the row
RowIndexedError == ~parsed.ok /\ parsed.err.tags # <<>> /\ parsed.err.tags[1] = rowIndex + 1

VendorBatchProcessed == op = "processRows" /\ kind = "vendor" /\ mapping.kind = "full"

\* every defective row of a vendor batch is in errors and not in normalized
DefectiveVendorRowsRecorded ==
    VendorBatchProcessed =>
        /\ Len(result.normalized) + Len(result.errors) = Len(rows)
        /\ \A p \in 1..Len(rows) :
               VendorDefect(rows[p]) => OutcomeAt(result, p).status = "error"

DefectiveVendorRowRejected ==
    (VendorRowParsed /\ VendorDefect(ParsedRow)) => RowIndexedError

\* the MPN cell is something String() and the schemas take: a string or a number
MPNIsText(row) == At(row, mapping.MPN).t \in {"str", "num"}

\* Infinity / Infinity: the unit cost is not a number
UnitCostUndefined(row) ==
    /\ ParsedCost(row).t = "num" /\ ParsedCost(row).n.k = "inf"
    /\ ParsedDivider(row).t = "num" /\ ParsedDivider(row).n.k = "inf"

CellUnder(row, h) ==
    LET at == {i \in 1..Len(headers.names) : headers.names[i] = h /\ i <= Len(row)}
    IN  IF headers.isNull \/ at = {} THEN Undef
        ELSE row[CHOOSE i \in at : \A j \in at : j <= i]

Unparsable(cell) == parseNumber(cell) = Null

Negative(cell) == parseNumber(cell).t = "num" /\ NumLt0(parseNumber(cell).n)

ItemBlank(cell) == cell.t \in {"null", "undef"} \/ (cell.t = "str" /\ Trim(cell.s) = <<>>)

CompanyDefect(row) ==
    \/ IsEmptyCell(CellUnder(row, "MPN"))
    \/ ItemBlank(CellUnder(row, "Item"))
    \/ Unparsable(CellUnder(row, "Cost")) \/ Negative(CellUnder(row, "Cost"))
    \/ Unparsable(CellUnder(row, "Price")) \/ Negative(CellUnder(row, "Price"))

CompanyRowParsed == op = "parseRow" /\ kind = "company"

\* C10: parseCompanyRow rejects, with an error naming the row, every row
\* whose MPN is null/undefined/empty, whose Item is missing or blank after
\* trimming, or whose Cost or Price is unparsable or negative.
C10_CompanyRejection ==
    (CompanyRowParsed /\ CompanyDefect(ParsedRow)) => RowIndexedError

\* a row under the required headers whose only defect is a null Item was
\* rejected with an error naming the row
C10_Witness ==
    /\ CompanyRowParsed /\ headers = Headers(RequiredHeaders)
    /\ Len(ParsedRow) = Len(RequiredHeaders)
    /\ CellUnder(ParsedRow, "Item") = Null
    /\ CellUnder(ParsedRow, "MPN").t = "str" /\ ~IsEmptyCell(CellUnder(ParsedRow, "MPN"))
    /\ ~Unparsable(CellUnder(ParsedRow, "Cost")) /\ ~Negative(CellUnder(ParsedRow, "Cost"))
    /\ ~Unparsable(CellUnder(ParsedRow, "Price")) /\ ~Negative(CellUnder(ParsedRow, "Price"))
    /\ RowIndexedError

(***************************************************************************)
(* Properties of matchItems and applyPriceUpdates.                         *)
(***************************************************************************)
MatchDone == kind = "match" /\ op \in {"matchItems", "applyPriceUpdates"}

\* the positions of the vendor rows with the given MPN
VendorPositions(MPN) == {j \in 1..Len(vendorRows) : vendorRows[j].MPN = MPN}

LastPosition(S) == CHOOSE j \in S : \A k \in S : k <= j

\* C3: the item of every company row c has a non-null vendorRow exactly when
\* some vendor row has c's MPN; that vendorRow then has c's MPN, and the
\* item's MPN and companyRow are c.MPN and c.
C3_MatchByMPN ==
    MatchDone =>
        \A i \in 1..Len(companyRows) :
            /\ i <= Len(matchedItems)
            /\ ~matchedItems[i].vendorRow.isNull <=> VendorPositions(companyRows[i].MPN) # {}
            /\ ~matchedItems[i].vendorRow.isNull =>
                   matchedItems[i].vendorRow.row.MPN = companyRows[i].MPN
            /\ matchedItems[i].MPN = companyRows[i].MPN
            /\ matchedItems[i].companyRow = companyRows[i]

\* one company row found a vendor row of its MPN among vendor rows of other
\* MPNs and another company row found none
C3_Witness ==
    /\ MatchDone
    /\ \E i, j \in 1..Len(matchedItems) :
           /\ ~matchedItems[i].vendorRow.isNull
           /\ matchedItems[i].vendorRow.row.MPN = companyRows[i].MPN
           /\ matchedItems[j].vendorRow.isNull
    /\ \E j \in 1..Len(vendorRows) : \A i \in 1..Len(companyRows) :
           vendorRows[j].MPN # companyRows[i].MPN

\* C4: every matched item has isOrphaned <=> vendorRow = null; its
\* costDifference is null exactly when it is orphaned and is otherwise
\* companyRow.Cost - vendorRow.Cost, the value 0 included.
C4_OrphanedAndDifference ==
    MatchDone =>
        \A i \in 1..Len(matchedItems) :
            /\ matchedItems[i].isOrphaned <=> matchedItems[i].vendorRow = NullVendor
            /\ matchedItems[i].costDifference = Null <=> matchedItems[i].isOrphaned
            /\ ~matchedItems[i].isOrphaned =>
                   matchedItems[i].costDifference =
                       Num(NumSub(matchedItems[i].companyRow.Cost,
                                  matchedItems[i].vendorRow.row.Cost))

\* an item whose two costs are equal, with costDifference 0, beside an
\* orphaned item
C4_Witness ==
    /\ MatchDone
    /\ \E i, j \in 1..Len(matchedItems) :
           /\ ~matchedItems[i].isOrphaned
           /\ matchedItems[i].companyRow.Cost = matchedItems[i].vendorRow.row.Cost
           /\ matchedItems[i].costDifference = Num(Int2Num(0))
           /\ matchedItems[j].isOrphaned /\ matchedItems[j].costDifference = Null

\* C5: the output of matchItems has as many items as there are company rows
\* and the i-th item's companyRow is the i-th company row.
C5_LeftJoin ==
    MatchDone =>
        /\ Len(matchedItems) = Len(companyRows)
        /\ \A i \in 1..Len(companyRows) : matchedItems[i].companyRow = companyRows[i]

\* duplicate MPNs among the company rows and among the vendor rows, an
\* orphaned company row and a vendor row that matches no company row
C5_Witness ==
    /\ MatchDone
    /\ Len(matchedItems) = 3
    /\ \E i, j \in 1..Len(companyRows) : i < j /\ companyRows[i].MPN = companyRows[j].MPN
    /\ \E i, j \in 1..Len(vendorRows) : i < j /\ vendorRows[i].MPN = vendorRows[j].MPN
    /\ \E i \in 1..Len(companyRows) : VendorPositions(companyRows[i].MPN) = {}
    /\ \E j \in 1..Len(vendorRows) : \A i \in 1..Len(companyRows) :
           vendorRows[j].MPN # companyRows[i].MPN

\* C6: a company row whose MPN several vendor rows share is paired with the
\* last of them in vendorRows order, and its costDifference is computed
\* against that row's Cost.
C6_LastVendorWins ==
    MatchDone =>
        \A i \in 1..Len(matchedItems) :
            VendorPositions(companyRows[i].MPN) # {} =>
                /\ matchedItems[i].vendorRow =
                       SomeVendor(vendorRows[LastPosition(VendorPositions(companyRows[i].MPN))])
                /\ matchedItems[i].costDifference =
                       Num(NumSub(companyRows[i].Cost,
                                  vendorRows[LastPosition(VendorPositions(companyRows[i].MPN))].Cost))

\* two vendor rows of one MPN with different costs, and a company row of
\* that MPN paired with the later one
C6_Witness ==
    /\ MatchDone
    /\ \E i \in 1..Len(matchedItems) : \E j, k \in VendorPositions(companyRows[i].MPN) :
           /\ j < k /\ k = LastPosition(VendorPositions(companyRows[i].MPN))
           /\ vendorRows[j].Cost # vendorRows[k].Cost
           /\ matchedItems[i].vendorRow.row = vendorRows[k]

PricesUpdated == kind = "match" /\ op = "applyPriceUpdates"

\* C7: applyPriceUpdates returns one row per item in the same order; for an
\* orphaned item the row is the company row unchanged, otherwise it is the
\* company row with Cost = vendorRow.Cost and Price = vendorRow.Cost *
\* markup.multiplier and every other field kept.
C7_PriceUpdates ==
    PricesUpdated =>
        /\ Len(updatedRows) = Len(matchedItems)
        /\ \A i \in 1..Len(matchedItems) :
               IF matchedItems[i].isOrphaned
               THEN updatedRows[i] = matchedItems[i].companyRow
               ELSE /\ updatedRows[i].Cost = matchedItems[i].vendorRow.row.Cost
                    /\ updatedRows[i].Price =
                           NumMul(matchedItems[i].vendorRow.row.Cost, markup.multiplier)
                    /\ DOMAIN updatedRows[i] = DOMAIN matchedItems[i].companyRow
                    /\ \A f \in DOMAIN updatedRows[i] \ {"Cost", "Price"} :
                           updatedRows[i][f] = matchedItems[i].companyRow[f]

\* an orphaned item beside a matched item whose Cost and Price both changed
C7_Witness ==
    /\ PricesUpdated
    /\ markup.multiplier = Fin(3, 2)
    /\ \E i, j \in 1..Len(matchedItems) :
           /\ matchedItems[i].isOrphaned /\ updatedRows[i] = companyRows[i]
           /\ ~matchedItems[j].isOrphaned
           /\ updatedRows[j].Cost # companyRows[j].Cost
           /\ updatedRows[j].Price # companyRows[j].Price
           /\ updatedRows[j].Price = NumMul(vendorRows[LastPosition(VendorPositions(companyRows[j].MPN))].Cost, Fin(3, 2))

(***************************************************************************)
(* Properties of company extraction and normalization.                     *)
(***************************************************************************)
CompanyRawExtracted == op = "extractRaw" /\ kind = "company"

ExtractionRefused ==
    (CompanyRawExtracted /\ (NoHeaders(headers) \/ Len(ParsedRow) # Len(headers.names)))
        => (~parsed.ok /\ parsed.err.tags = <<rowIndex + 1>>)

ExtractionPossible ==
    CompanyRawExtracted /\ ~NoHeaders(headers) /\ Len(ParsedRow) = Len(headers.names)

\* the positions of the header row that carry the name h
HeaderPositions(h) == {i \in 1..Len(headers.names) : headers.names[i] = h}

\* C11 as stated: extraction fails with a 1-based row-indexed error when
\* headers is empty or the row and header lengths differ; otherwise every
\* header name maps to the cell at the header's own position.
C11_PositionalZip ==
    /\ ExtractionRefused
    /\ ExtractionPossible =>
           /\ parsed.ok
           /\ \A i \in 1..Len(headers.names) : parsed.val[headers.names[i]] = ParsedRow[i]

\* C11: extraction fails with a 1-based row-indexed error when headers is
\* empty or the row and header lengths differ; otherwise the record has the
\* header names as keys and each name maps to the cell at the last position
\* that carries the name (its own position when the names are distinct).
C11_ZipLastWins ==
    /\ ExtractionRefused
    /\ ExtractionPossible =>
           /\ parsed.ok
           /\ DOMAIN parsed.val = {headers.names[i] : i \in 1..Len(headers.names)}
           /\ \A i \in 1..Len(headers.names) :
                  parsed.val[headers.names[i]] =
                      ParsedRow[LastPosition(HeaderPositions(headers.names[i]))]

\* a row extracted under a header row that names Cost twice, with different
\* cells in the two Cost columns
C11_Witness ==
    /\ ExtractionPossible /\ parsed.ok
    /\ Cardinality(HeaderPositions("Cost")) = 2
    /\ \E i, j \in HeaderPositions("Cost") :
           i < j /\ ParsedRow[i] # ParsedRow[j] /\ parsed.val["Cost"] = ParsedRow[j]

CompanyRowAccepted == CompanyRowParsed /\ parsed.ok

\* C12: every company row parseCompanyRow accepts has MPN and Item equal to
\* the trimmed string form of the MPN and Item cells.
C12_TrimmedMPNAndItem ==
    CompanyRowAccepted =>
        /\ parsed.val.MPN = Trim(ToStr(CellUnder(ParsedRow, "MPN")))
        /\ parsed.val.Item = Trim(ToStr(CellUnder(ParsedRow, "Item")))

\* an optional field of an accepted row against its cell: undefined for an
\* empty or missing cell, the cell's string otherwise
OptionalKept(field, cell) ==
    IF IsEmptyCell(cell) THEN field = Undef ELSE field = Str(ToStr(cell))

AmountsKept ==
    /\ Num(parsed.val.Cost) = parseNumber(CellUnder(ParsedRow, "Cost"))
    /\ Num(parsed.val.Price) = parseNumber(CellUnder(ParsedRow, "Price"))

\* C13: in every accepted company row Description, PreferredVendor and U/M
\* are undefined when their cell is empty or their header is missing and
\* otherwise equal the cell's string value; Cost and Price are the numbers
\* parseNumber obtains from their cells.
C13_OptionalFieldsPassThrough ==
    CompanyRowAccepted =>
        /\ OptionalKept(parsed.val.Description, CellUnder(ParsedRow, "Description"))
        /\ OptionalKept(parsed.val.PreferredVendor, CellUnder(ParsedRow, "PreferredVendor"))
        /\ OptionalKept(parsed.val.UM, CellUnder(ParsedRow, "U/M"))
        /\ AmountsKept

(***************************************************************************)
(* Properties of parseNumber.                                              *)
(***************************************************************************)
NumberParsed == kind = "number" /\ op = "parseNumber"

NumberInput == rows[1][1]

\* an unsigned string that is, in its entirety, Infinity or digits with an
\* optional fraction
IsUnsignedLiteral(u) ==
    \/ u = <<"INF">>
    \/ /\ DigitRun(u, 1) = Len(u)
       /\ Len(u) > 0
    \/ /\ DigitRun(u, 1) < Len(u)
       /\ u[DigitRun(u, 1) + 1] = "."
       /\ DigitRun(u, 1) + 1 + DigitRun(u, DigitRun(u, 1) + 2) = Len(u)
       /\ Len(u) > 1

IsNumericLiteral(s) ==
    IF s # <<>> /\ s[1] \in {"-", "+"} THEN IsUnsignedLiteral(Tail(s)) ELSE IsUnsignedLiteral(s)

\* the reference result parseNumber is compared with in C14
ReferenceNumber(value) ==
    IF value.t = "num" THEN (IF isNaN(value.n) THEN Null ELSE value)
    ELSE IF value.t = "str" /\ IsNumericLiteral(StripCurrency(value.s))
    THEN Num(parseFloat(StripCurrency(value.s)))
    ELSE Null

\* C14: parseNumber returns a value for every input and agrees with the
\* reference: null for null, undefined, '', NaN and values that are neither
\* number nor string; the number itself for any other number; for a string,
\* the number denoted by what is left after removing '$', ',' and whitespace,
\* or null when that remainder is not in its entirety a numeric literal.
C14_ParseNumberReference ==
    NumberParsed => (parsed.ok /\ parsed.val = ReferenceNumber(NumberInput))

(***************************************************************************)
(* Properties of the batch entry points and of the errors.                 *)
(***************************************************************************)
BatchProcessed == op = "processRows"

\* vendor: a null mapping or a mapping with no fields; company: null or
\* zero-length headers
ConfigAbsentOrEmpty ==
    IF kind = "vendor" THEN mapping.kind \in {"null", "empty"} ELSE NoHeaders(headers)

\* C15: processRows called with an absent or empty config returns
\* {normalized: [], errors: []} whatever the rows.
C15_EmptyConfigEmptyResult ==
    (BatchProcessed /\ ConfigAbsentOrEmpty) => result = EmptyResult

IsNormalizedVendorRow(v) ==
    /\ Len(v.MPN) >= 1
    /\ NumGe0(v.Cost)
    /\ NumGt0(v.UnitDivider)
    /\ NumGe0(v.UnitCost)

IsNormalizedCompanyRow(c) ==
    /\ Len(c.MPN) >= 1
    /\ Len(c.Item) >= 1
    /\ NumGe0(c.Cost)
    /\ NumGe0(c.Price)

IsNormalizedRow(r) ==
    IF kind = "vendor" THEN IsNormalizedVendorRow(r) ELSE IsNormalizedCompanyRow(r)

\* C16: every row in the normalized output of processVendorRows has a
\* non-empty MPN, Cost >= 0, UnitDivider > 0 and UnitCost >= 0, and every row
\* in the normalized output of processCompanyRows has a non-empty MPN, a
\* non-empty Item, Cost >= 0 and Price >= 0; so has every row the single-row
\* entry points return.
C16_NormalizedRowsValid ==
    /\ BatchProcessed =>
           \A j \in 1..Len(result.normalized) : IsNormalizedRow(result.normalized[j])
    /\ (op = "parseRow" /\ parsed.ok) => IsNormalizedRow(parsed.val)

\* a vendor batch that normalized a row with a provided divider beside a row
\* it refused
C16_Witness ==
    /\ BatchProcessed /\ kind = "vendor"
    /\ result.errors # <<>>
    /\ \E j \in 1..Len(result.normalized) :
           /\ result.normalized[j].UnitDivider = Int2Num(4)
           /\ result.normalized[j].UnitCost = Fin(5, 2)

\* C17: every error parseRow raises for row index i carries the context
\* [Row i+1] exactly once, whichever stage raised it, and every entry
\* {row, error} processRows records has the message context [Row row].
C17_RowContextOnce ==
    /\ (op = "parseRow" /\ ~parsed.ok) => parsed.err.tags = <<rowIndex + 1>>
    /\ BatchProcessed =>
           \A j \in 1..Len(result.errors) :
               result.errors[j].error.tags = <<result.errors[j].row>>

\* the final schema refused a row that passed validation (a unit cost that is
\* not a number), and the error was given the context of the row
C17_Witness ==
    /\ VendorRowParsed /\ ~parsed.ok
    /\ UnitCostUndefined(ParsedRow) /\ ~VendorDefect(ParsedRow) /\ MPNIsText(ParsedRow)
    /\ parsed.err.tags = <<rowIndex + 1>>

(***************************************************************************)
(* The order of the validation checks.                                     *)
(***************************************************************************)
\* the declared constraints a vendor row violates, in the declared order
VendorViolations(row) ==
    (IF MPNMissing(row) THEN <<"MPNEmpty">> ELSE <<>>)
    \o (IF CostUnparsable(row) THEN <<"CostUnparsable">> ELSE <<>>)
    \o (IF CostNegative(row) THEN <<"CostNegative">> ELSE <<>>)
    \o (IF DividerNotPositive(row) THEN <<"DividerNotPositive">> ELSE <<>>)

CompanyViolations(row) ==
    (IF IsEmptyCell(CellUnder(row, "MPN")) THEN <<"MPNEmpty">> ELSE <<>>)
    \o (IF ItemBlank(CellUnder(row, "Item")) THEN <<"ItemBlank">> ELSE <<>>)
    \o (IF Unparsable(CellUnder(row, "Cost")) THEN <<"CostUnparsable">> ELSE <<>>)
    \o (IF Negative(CellUnder(row, "Cost")) THEN <<"CostNegative">> ELSE <<>>)
    \o (IF Unparsable(CellUnder(row, "Price")) THEN <<"PriceUnparsable">> ELSE <<>>)
    \o (IF Negative(CellUnder(row, "Price")) THEN <<"PriceNegative">> ELSE <<>>)

\* the constraint a schema issue is about
IssueViolation(issue) ==
    CASE issue = "MPN: MPN is required and cannot be empty" -> "MPNEmpty"
      [] issue = "MPN: Invalid input" -> "MPNEmpty"
      [] issue = "Cost: Expected number" -> "CostUnparsable"
      [] issue = "Cost: Cost cannot be negative" -> "CostNegative"
      [] issue \in {"UnitDivider: Expected number",
                    "UnitDivider: Number must be greater than 0"} -> "DividerNotPositive"
      [] OTHER -> "Other"

\* the violations an error message reports, in the order it lists them
ReportedViolations(err) ==
    CASE err.kind = "MPNRequired" -> <<"MPNEmpty">>
      [] err.kind = "ItemRequired" -> <<"ItemBlank">>
      [] err.kind = "CostNotANumber" -> <<"CostUnparsable">>
      [] err.kind = "CostNegative" -> <<"CostNegative">>
      [] err.kind = "PriceNotANumber" -> <<"PriceUnparsable">>
      [] err.kind = "PriceNegative" -> <<"PriceNegative">>
      [] err.kind = "RowValidationFailed" ->
             [j \in 1..Len(err.issues) |-> IssueViolation(err.issues[j])]
      [] OTHER -> <<"Other">>

\* validation is reached and the MPN cell is empty, a string or a number
VendorRowValidated ==
    /\ VendorRowParsed /\ ~IndexOutOfRange(ParsedRow)
    /\ (MPNMissing(ParsedRow) \/ MPNIsText(ParsedRow))

\* validation is reached and the Item cell is empty or a string
CompanyRowValidated ==
    /\ CompanyRowParsed /\ ~NoHeaders(headers) /\ Len(ParsedRow) = Len(headers.names)
    /\ CellUnder(ParsedRow, "Item").t \in {"null", "undef", "str"}

FirstVendorViolationOnly ==
    (VendorRowValidated /\ VendorViolations(ParsedRow) # <<>>) =>
        /\ ~parsed.ok
        /\ ReportedViolations(parsed.err) = <<VendorViolations(ParsedRow)[1]>>

FirstCompanyViolationOnly ==
    (CompanyRowValidated /\ CompanyViolations(ParsedRow) # <<>>) =>
        /\ ~parsed.ok
        /\ ReportedViolations(parsed.err) = <<CompanyViolations(ParsedRow)[1]>>

\* C18: a row that violates one or several field constraints is rejected on
\* the first violated constraint in the declared order (vendor: MPN empty,
\* Cost unparsable, Cost negative, UnitDivider not positive; company: MPN
\* empty, Item blank, Cost unparsable, Cost negative, Price unparsable, Price
\* negative) and the error reports that violation only.
C18_FirstViolationOnly == FirstVendorViolationOnly /\ FirstCompanyViolationOnly

\* the Unit Divider is mapped inside the row and its cell is not empty but
\* does not parse
DividerUnparsable(row) ==
    /\ mapping.hasUD /\ ~OutOfRow(mapping.UD, row)
    /\ ~IsEmptyCell(At(row, mapping.UD))
    /\ parseNumber(At(row, mapping.UD)) = Null

\* C19: a vendor row whose mapped, in-range Unit Divider cell holds a
\* non-empty value that is not a number is rejected, with an error naming the
\* row, and a batch records an error for it.
C19_UnparsableDividerRejected ==
    /\ (VendorRowParsed /\ ~IndexOutOfRange(ParsedRow) /\ DividerUnparsable(ParsedRow))
           => RowIndexedError
    /\ VendorBatchProcessed =>
           \A p \in 1..Len(rows) :
               (~IndexOutOfRange(rows[p]) /\ DividerUnparsable(rows[p]))
                   => OutcomeAt(result, p).status = "error"

(***************************************************************************)
(* Properties of getMarkupForSubclass.                                     *)
(***************************************************************************)
MarkupLookedUp == kind = "markup" /\ op = "getMarkupForSubclass"

\* C20: getMarkupForSubclass returns the table's own entry for the key
\* subclass when the table has one and defaultMarkup for every subclass that
\* is not a key of the table.
C20_ExactKeyLookup ==
    MarkupLookedUp =>
        IF subclass \in DOMAIN markupTable
        THEN selected = markupTable[subclass]
        ELSE selected = defaultMarkup

(***************************************************************************)
(* Purity of matchItems.                                                   *)
(***************************************************************************)
MatchedTwice == kind = "match" /\ op = "matchItemsAgain"

ValidDividers == {Int2Num(1), Int2Num(4), Fin(1, 2)}

\* the normalized vendor row of the same MPN and Cost with Unit Divider d
Redivided(vendorRow, d) ==
    [vendorRow EXCEPT !.UnitDivider = d, !.UnitCost = NumDiv(vendorRow.Cost, d)]

\* the vendor inputs that differ from vendorRows only in Unit Divider values
DividerVariants ==
    {[i \in 1..Len(vendorRows) |-> Redivided(vendorRows[i], f[i])] :
        f \in [1..Len(vendorRows) -> ValidDividers]}

\* C26: for two vendor inputs that differ only in valid Unit Divider values,
\* matchItems returns the same isOrphaned and costDifference for every
\* company row and applyPriceUpdates returns the same Cost and Price.
C26_DividerIrrelevant ==
    MatchDone =>
        \A variant \in DividerVariants :
            LET items == matchItems(companyRows, variant)
                updated == applyPriceUpdates(items, markup)
            IN  /\ Len(items) = Len(matchedItems)
                /\ \A i \in 1..Len(items) :
                       /\ items[i].isOrphaned = matchedItems[i].isOrphaned
                       /\ items[i].costDifference = matchedItems[i].costDifference
                /\ PricesUpdated =>
                       \A i \in 1..Len(updated) :
                           /\ updated[i].Cost = updatedRows[i].Cost
                           /\ updated[i].Price = updatedRows[i].Price

C26_Witness ==
    /\ PricesUpdated
    /\ markup.multiplier # Int2Num(0)
    /\ \E i \in 1..Len(matchedItems) :
           /\ ~matchedItems[i].isOrphaned
           /\ matchedItems[i].vendorRow.row.UnitDivider = Int2Num(4)
           /\ matchedItems[i].vendorRow.row.UnitCost # matchedItems[i].vendorRow.row.Cost
    /\ DividerVariants # {vendorRows}

(***************************************************************************)
(* Acceptance of company rows and the optional cells.                      *)
(***************************************************************************)
OptionalNames == {"Description", "PreferredVendor", "U/M"}

\* cell values of several types for an optional cell
VariantCells == {Null, Str(sAbc), Num(Int2Num(5))}

\* the positions of a row that lie under an optional header
OptionalPositions(row) ==
    {i \in 1..Len(row) : i <= Len(headers.names) /\ headers.names[i] \in OptionalNames}

\* the rows that differ from row only in cells under optional headers
OptionalVariants(row) ==
    {[i \in 1..Len(row) |-> IF i \in OptionalPositions(row) THEN f[i] ELSE row[i]] :
        f \in [OptionalPositions(row) -> VariantCells]}

CompanyBatchProcessed == kind = "company" /\ op = "processRows" /\ ~NoHeaders(headers)

\* C27: whether processCompanyRows accepts a company row depends only on the
\* row's length and its MPN, Item, Cost and Price cells: a row that differs
\* from a processed row only in Description, PreferredVendor or U/M cells is
\* accepted exactly when the processed row is.
C27_OptionalCellsIrrelevant ==
    CompanyBatchProcessed =>
        \A p \in 1..Len(rows) :
            \A variant \in OptionalVariants(rows[p]) :
                (processCompanyRows(<<variant>>, headers, impl).errors = <<>>)
                    <=> (OutcomeAt(result, p).status = "normalized")

(***************************************************************************)
(* Properties of the stores.                                               *)
(***************************************************************************)
\* the rows processVendorRows normalizes from the loaded vendor file under
\* the mapping of the latest normalizeRows call
VendorNormalizedNow ==
    processVendorRows(vendorStore.data.rows.val, mapping, "function").normalized

CompanyNormalizedNow ==
    processCompanyRows(companyStore.data.rows.val, companyStore.data.headers,
                       "function").normalized

NormalizedRowsCurrent ==
    /\ \/ vendorStore.normalizedRows = <<>>
       \/ ~vendorStore.data.rows.isNull /\ vendorStore.normalizedRows = VendorNormalizedNow
    /\ \/ companyStore.normalizedRows = <<>>
       \/ ~companyStore.data.rows.isNull /\ companyStore.normalizedRows = CompanyNormalizedNow

\* a normalizeRows call that repeats the call before it
VendorNormalizeRepeated ==
    op = "vendorStore.normalizeRows" /\ op' = "vendorStore.normalizeRows" /\ mapping' = mapping

CompanyNormalizeRepeated ==
    op = "companyStore.normalizeRows" /\ op' = "companyStore.normalizeRows"

\* C22: after any sequence of setFile, clearFile and normalizeRows calls on
\* the vendor or company store, normalizedRows is empty or exactly what the
\* latest normalizeRows call normalizes from the currently loaded file (no
\* row of an earlier normalization or of a file loaded before remains), and
\* repeating normalizeRows with the same file and mapping leaves
\* normalizedRows as it is.
C22_NormalizedRowsCurrent ==
    /\ []NormalizedRowsCurrent
    /\ [][/\ VendorNormalizeRepeated =>
                 vendorStore'.normalizedRows = vendorStore.normalizedRows
          /\ CompanyNormalizeRepeated =>
                 companyStore'.normalizedRows = companyStore.normalizedRows]_vars

\* the second vendor file is loaded and normalized after the first one was
C22_Witness ==
    /\ kind = "stores"
    /\ op = "vendorStore.normalizeRows"
    /\ vendorStore.data.file = "vendorB"
    /\ vendorStore.normalizedRows # <<>>
    /\ vendorStore.normalizedRows = VendorNormalizedNow
    /\ companyStore.normalizedRows # <<>>

FileStoreCleared(store) ==
    /\ store.data.file = "null"
    /\ store.data.headers = NullHeaders
    /\ store.data.rows = NullRows
    /\ store.data.filename = "null"
    /\ store.normalizedRows = <<>>

\* C23: mappingStore.clearAll() leaves both file stores with no file,
\* headers, rows or filename and with empty normalizedRows, both mappings
\* null, isMapped false and matchedItems, hence the orphaned items, empty.
C23_ClearAllClears ==
    op = "mappingStore.clearAll" =>
        /\ FileStoreCleared(vendorStore)
        /\ FileStoreCleared(companyStore)
        /\ mappingStore.vendorMapping = NullMapping
        /\ mappingStore.companyMapping = NullMapping
        /\ ~mappingStore.isMapped
        /\ mappingStore.matchedItems = <<>>
        /\ orphanedItems(mappingStore) = <<>>

\* clearAll was called after a vendor normalization under a mapping
C23_Witness ==
    /\ kind = "stores"
    /\ op = "mappingStore.clearAll"
    /\ mapping # NullMapping
    /\ FileStoreCleared(vendorStore)
    /\ FileStoreCleared(companyStore)
    /\ mappingStore = NewMappingStore

(***************************************************************************)
(* Properties of the upload, the column selector and the Match button.     *)
(***************************************************************************)
\* C24: whenever mappingStore.matchedItems is non-empty it equals matchItems
\* applied to the current companyStore.normalizedRows and
\* vendorStore.normalizedRows.
C24_MatchedItemsCurrent ==
    mappingStore.matchedItems # <<>> =>
        mappingStore.matchedItems =
            matchItems(companyStore.normalizedRows, vendorStore.normalizedRows)

\* the FileData of file f loaded under its own name
LoadedData(f) ==
    [file     |-> f,
     headers  |-> Headers(readExcelFile(f).val.headers),
     rows     |-> Rows(readExcelFile(f).val.rows),
     filename |-> FileName(f)]

\* the content read for p is in the store of the type p was started with,
\* under the name of p's file, and the other store keeps its data
StoredAsInitiated(p) ==
    IF p.type = "vendor"
    THEN /\ vendorStore'.data = LoadedData(p.file)
         /\ companyStore'.data = companyStore.data
    ELSE /\ validateHeaders(readExcelFile(p.file).val.headers, UploadHeaders) =>
                companyStore'.data = LoadedData(p.file)
         /\ vendorStore'.data = vendorStore.data

\* C25: the content read from a selected file is stored in the store of the
\* file type chosen when that file's upload was initiated, together with
\* that file's name, also when a second upload is initiated or a second file
\* is selected before the read completes.
C25_ContentStoredByType ==
    [][\A p \in pending : ReadResolved(p) => StoredAsInitiated(p)]_vars

\* the position of the header the upload's validation accepts for required
HeaderPosition(names, required) ==
    CHOOSE i \in 1..Len(names) : ToLowerCaseTrim(names[i]) = ToLowerCaseTrim(required)

UploadedCell(row, names, required) == row[HeaderPosition(names, required)]

ParsableAmount(cell) ==
    parseNumber(cell).t = "num" /\ NumGe0(parseNumber(cell).n)

\* a row of full length with non-empty MPN, Item, Cost and Price cells and
\* parsable non-negative Cost and Price
WellFormedRow(row, names) ==
    /\ Len(row) = Len(names)
    /\ \A required \in {"MPN", "Item", "Cost", "Price"} :
           ~IsEmptyCell(UploadedCell(row, names, required))
    /\ ~ItemBlank(UploadedCell(row, names, "Item"))
    /\ ParsableAmount(UploadedCell(row, names, "Cost"))
    /\ ParsableAmount(UploadedCell(row, names, "Price"))

\* C28: for a company file that passed the upload's header validation, the
\* automatic normalization normalizes every well-formed row of full length
\* and carries its Preferred Vendor cell into PreferredVendor.
C28_UploadedRowsNormalized ==
    ~companyStore.data.rows.isNull =>
        LET names == companyStore.data.headers.names
            loaded == companyStore.data.rows.val
            res == processCompanyRows(loaded, companyStore.data.headers, "function")
        IN  /\ companyStore.normalizedRows = res.normalized
            /\ \A p \in 1..Len(loaded) :
                   WellFormedRow(loaded[p], names) =>
                       /\ OutcomeAt(res, p).status = "normalized"
                       /\ OptionalKept(OutcomeAt(res, p).row.PreferredVendor,
                                       UploadedCell(loaded[p], names, "Preferred Vendor"))

\* C29: whenever the selection can be confirmed the columns chosen for MPN,
\* Cost and (if selected) Unit Divider are pairwise distinct, and a Unit
\* Divider column is selected only while the Unit Divider option is enabled.
C29_DistinctColumns ==
    showColumnSelector =>
        /\ canConfirm =>
               /\ selections.MPN # selections.Cost
               /\ selections.UnitDivider # -1 =>
                      selections.UnitDivider \notin {selections.MPN, selections.Cost}
        /\ selections.UnitDivider # -1 => enabledOption

\* the read of p resolved and the header validation of a company upload
\* refuses what was read
HeaderValidationFailed(p) ==
    /\ ReadResolved(p)
    /\ currentFileType = "company"
    /\ ~validateHeaders(readExcelFile(p.file).val.headers, UploadHeaders)

\* C30: an upload that fails because reading the file rejects or because a
\* company file fails the header validation leaves the vendor store, the
\* company store and the mapping store as they were when it started: none
\* of its steps changes them.
C30_FailedUploadFrame ==
    [][/\ \A type \in FileTypes : UploadByFileTypeCall(type) => UNCHANGED storeVars
       /\ \A f \in UploadFiles : HandleFileSelectCall(f) => UNCHANGED storeVars
       /\ \A p \in pending :
              (ReadRejected(p) \/ HeaderValidationFailed(p)) => UNCHANGED storeVars]_vars

\* reading the file rejected while both stores were loaded and matched
C30_Witness ==
    /\ kind = "upload"
    /\ errorMessage = "Failed to parse file"
    /\ file = "unreadable"
    /\ pending = {}
    /\ vendorStore.normalizedRows # <<>>
    /\ companyStore.normalizedRows # <<>>
    /\ mappingStore.matchedItems # <<>>

====
